---- MODULE Spec2Model ----
(***************************************************************************)
(* A model of the SPF checker wttw/spf: Checker.SPF, checkHost and         *)
(* checkHostCore, the mechanism evaluators, the PTR probe and the DNS      *)
(* gateway (lookupDNS, lookupAddresses, getSPFRecord).                     *)
(*                                                                         *)
(* Text is modelled at the granularity of DNS labels: a name or a          *)
(* domain-spec is the sequence of the pieces between its dots, so          *)
(* "d1.test." is <<"d1", "test", "">> and the empty string is <<>>.  A     *)
(* macro such as %{d} is one piece of a domain-spec.                       *)
(*                                                                         *)
(* Recursion (include, redirect) is an explicit stack of checkHost         *)
(* frames.  The resolver's TXT data is the variable zone, fixed for each   *)
(* name by the first query for it; every other DNS reply is chosen when    *)
(* the query is made.                                                      *)
(***************************************************************************)
EXTENDS Integers, Sequences, FiniteSets, TLC

(* ------------------------------------------------------------------ *)
(* result.go: ResultType                                                *)
(* ------------------------------------------------------------------ *)
None == "none"
Neutral == "neutral"
Pass == "pass"
Fail == "fail"
Softfail == "softfail"
Temperror == "temperror"
Permerror == "permerror"

ResultTypes == {None, Neutral, Pass, Fail, Softfail, Temperror, Permerror}

\* The nil error
Nil == "nil"

(* ------------------------------------------------------------------ *)
(* Checker configuration (NewChecker)                                   *)
(* ------------------------------------------------------------------ *)
DNSLimit == 10
VoidQueryLimit == 2
\* The Checker of the model is configured with small per-term limits, so
\* that answers longer than the limit are among the replies enumerated.
MXAddressLimit == 2
PtrAddressLimit == 2
Hostname == "mail.example.com"

(* ------------------------------------------------------------------ *)
(* Names, addresses                                                     *)
(* ------------------------------------------------------------------ *)
Last(s) == s[Len(s)]
Front(s) == SubSeq(s, 1, Len(s) - 1)

\* dns.Fqdn: append the root label unless it is there
Fqdn(s) == IF Len(s) > 0 /\ Last(s) = "" THEN s ELSE Append(s, "")

\* dns.IsFqdn
IsFqdn(s) == Len(s) > 0 /\ Last(s) = ""

\* strings.TrimSuffix(s, ".")
TrimDot(s) == IF Len(s) > 1 /\ Last(s) = "" THEN Front(s) ELSE s

\* dns.IsDomainName: no empty label but the root label at the end
IsDomainName(s) ==
    /\ Len(s) > 0
    /\ \A k \in 1..Len(TrimDot(s)) : TrimDot(s)[k] # ""

\* Labels that validDomainSuffix accepts as the last label and allNumeric
\* does not reject (letters-digits-hyphen, not all digits).
TopLabels == {"test", "example", "com"}

\* ptr.go validDomainName: at least two labels, the last one a top label
validDomainName(hostname) ==
    /\ IsDomainName(hostname)
    /\ Len(TrimDot(hostname)) >= 2
    /\ Last(TrimDot(hostname)) \in TopLabels

\* dns.IsSubDomain(parent, child): child is parent or ends with .parent
IsSubDomain(parent, child) ==
    LET p == TrimDot(parent)
        c == TrimDot(child)
    IN  /\ Len(c) >= Len(p)
        /\ SubSeq(c, Len(c) - Len(p) + 1, Len(c)) = p

\* Client addresses: an IPv4 address is 4 octets, an IPv6 address 8 groups.
ClientV4 == <<192, 0, 2, 1>>
NearV4 == <<192, 0, 2, 2>>
ClientV6 == <<8193, 3512, 0, 0, 0, 0, 0, 1>>

\* net.IP.To4() != nil
To4(ip) == Len(ip) = 4

\* (&net.IPNet{IP, Mask}).Contains(ip), the mask given by its ones, a
\* multiple of the piece width (8 bits for IPv4, 16 for IPv6)
Contains(netip, ones, ip) ==
    /\ Len(netip) = Len(ip)
    /\ LET w == IF To4(ip) THEN 8 ELSE 16
       IN  \A k \in 1..(ones \div w) : netip[k] = ip[k]

(* ------------------------------------------------------------------ *)
(* DNS messages                                                         *)
(* ------------------------------------------------------------------ *)
NetErr == [err |-> TRUE, rcode |-> "NOERROR", answer |-> <<>>]
Reply(rcode, answer) == [err |-> FALSE, rcode |-> rcode, answer |-> answer]
RR(rrtype, data) == [rrtype |-> rrtype, data |-> data]

\* c.resolve: one call of the Resolver.  result.nq is not a field of the
\* source's Result: it counts the calls as the Dns hook sees them.
Resolved(result) == [result EXCEPT !.nq = @ + 1]

\* A faulty variant of lookupDNS: a failing RCODE is counted as a void
\* lookup
lookupDNSVoidOnFailure(m, qtype, result) ==
    LET r0 == Resolved(result)
    IN  IF m.err
        THEN [rrs |-> <<>>, rt |-> Temperror, err |-> "transport", result |-> r0]
        ELSE IF m.rcode # "NOERROR" \/ Len(m.answer) = 0
        THEN LET r2 == [r0 EXCEPT !.VoidLookups = @ + 1]
             IN  IF r2.VoidLookups > VoidQueryLimit
                 THEN [rrs |-> <<>>, rt |-> Permerror, err |-> "void limit", result |-> r2]
                 ELSE [rrs |-> <<>>, rt |-> IF m.rcode \in {"NOERROR", "NXDOMAIN"}
                                            THEN None ELSE Temperror,
                       err |-> Nil, result |-> r2]
        ELSE [rrs |-> SelectSeq(m.answer, LAMBDA rr : rr.rrtype = qtype),
              rt |-> None, err |-> Nil, result |-> r0]

\* ptr.go lookupDNS: one query, classified; counts void lookups
lookupDNS(m, qtype, result) ==
    LET r0 == Resolved(result)
    IN  IF m.err
        THEN [rrs |-> <<>>, rt |-> Temperror, err |-> "transport", result |-> r0]
        ELSE IF m.rcode = "NXDOMAIN" \/ (m.rcode = "NOERROR" /\ Len(m.answer) = 0)
        THEN LET r2 == [r0 EXCEPT !.VoidLookups = @ + 1]
             IN  IF r2.VoidLookups > VoidQueryLimit
                 THEN [rrs |-> <<>>, rt |-> Permerror, err |-> "void limit", result |-> r2]
                 ELSE [rrs |-> <<>>, rt |-> None, err |-> Nil, result |-> r2]
        ELSE IF m.rcode # "NOERROR"
        THEN [rrs |-> <<>>, rt |-> Temperror, err |-> Nil, result |-> r0]
        ELSE [rrs |-> SelectSeq(m.answer, LAMBDA rr : rr.rrtype = qtype),
              rt |-> None, err |-> Nil, result |-> r0]

\* ptr.go lookupAddresses lines 335-346, l what lookupDNS returned
AddressesOf(l) ==
    IF l.rt # None
    THEN [addrs |-> <<>>, rt |-> l.rt, err |-> l.err, result |-> l.result]
    ELSE [addrs |-> [k \in 1..Len(l.rrs) |-> l.rrs[k].data],
          rt |-> None, err |-> Nil, result |-> l.result]

\* ptr.go lookupAddresses
lookupAddresses(m, qtype, result) == AddressesOf(lookupDNS(m, qtype, result))

\* address.Equal(result.ip) for one of the addresses
Validates(la, ip) == \E j \in 1..Len(la.addrs) : la.addrs[j] = ip

(* ------------------------------------------------------------------ *)
(* ptr.go: the PTR probe of the %{p} macro                              *)
(* ------------------------------------------------------------------ *)
\* A faulty variant of Truncate: every record is kept
TruncateNever(rrs) == rrs

\* rrs[:c.PtrAddressLimit]
Truncate(rrs) ==
    IF Len(rrs) > PtrAddressLimit THEN SubSeq(rrs, 1, PtrAddressLimit) ELSE rrs

QType(ip) == IF To4(ip) THEN "A" ELSE "AAAA"

\* The first possible that is the target or below it, else the first, else
\* "unknown" (ptr.go lines 154-162)
PickPossible(possibles, target) ==
    LET subs == {k \in 1..Len(possibles) : IsSubDomain(target, possibles[k])}
    IN  IF subs # {}
        THEN TrimDot(possibles[CHOOSE k \in subs : \A j \in subs : k <= j])
        ELSE IF Len(possibles) > 0 THEN TrimDot(possibles[1])
        ELSE <<"unknown">>

RECURSIVE PtrMacroLoop(_, _, _, _, _, _)
\* One turn of the loop of expandPtrMacro (ptr.go lines 138-152): la is what
\* the forward lookup of hostname returned
PtrMacroStep(rrs, k, possibles, target, o, hostname, la, ip) ==
    IF la.err # Nil
    THEN PtrMacroLoop(rrs, k + 1, la.result, possibles, target, o)
    ELSE IF Validates(la, ip) /\ hostname = target
    THEN [value |-> TrimDot(hostname), result |-> la.result]
    ELSE PtrMacroLoop(rrs, k + 1, la.result,
                      IF Validates(la, ip) THEN Append(possibles, hostname) ELSE possibles,
                      target, o)

\* The loop of expandPtrMacro over the PTR records (ptr.go lines 136-162);
\* o.fwd[h] is the resolver's reply to the forward lookup of h
PtrMacroLoop(rrs, k, result, possibles, target, o) ==
    IF k > Len(rrs)
    THEN [value |-> PickPossible(possibles, target), result |-> result]
    ELSE PtrMacroStep(rrs, k, possibles, target, o, rrs[k].data,
                      lookupAddresses(o.fwd[rrs[k].data], QType(result.ip), result),
                      result.ip)

\* ptr.go expandPtrMacro lines 127-135, l what the PTR lookup returned
PtrMacroRecords(l, target, o) ==
    IF l.err # Nil
    THEN [value |-> <<"unknown">>, result |-> l.result]
    ELSE PtrMacroLoop(Truncate(l.rrs), 1, l.result, <<>>, Fqdn(target), o)

\* ptr.go expandPtrMacro; o.ptr is the reply to the PTR query
expandPtrMacro(result, target, o) ==
    PtrMacroRecords(lookupDNS(o.ptr, "PTR", result), target, o)

(* ------------------------------------------------------------------ *)
(* macro.go: expansion, one piece of the macro-string at a time         *)
(* ------------------------------------------------------------------ *)
\* The letters that macroRe (line 77) lets through: [alodiphcrtvALODIPHCRTV]
LowerLetters == {"a", "l", "o", "d", "i", "p", "h", "c", "r", "t", "v"}
UpperLetters == {"A", "L", "O", "D", "I", "P", "H", "C", "R", "T", "V"}
MacroLetters == LowerLetters \cup UpperLetters

\* "%{" letter "}": a macro without transformers
Braced(letter) == "%{" \o letter \o "}"

\* The pieces "%{letter}" that macroRe matches
BracedPieces == {Braced(letter) : letter \in MacroLetters}

\* %%, %_ and %-
EscapePieces == {"%%", "%_", "%-"}

\* The pieces with a % that MacroIsValid and expandMacro accept
MacroPieces == BracedPieces \cup EscapePieces

\* Pieces with a % that macroRe or the switch on the next character
\* rejects: a trailing %, a character that may not follow %, a letter
\* outside the class of macroRe (z, and s and S, which the class omits), an
\* open brace that is not closed
BadPieces == {"%", "%x", "%{z}", "%{s}", "%{S}", "%{d"}

HasPercent(piece) == piece \in MacroPieces \cup BadPieces

\* The letter of each piece of BracedPieces
LetterTable ==
    [piece \in BracedPieces |-> CHOOSE letter \in MacroLetters : Braced(letter) = piece]

\* The letter of a piece of BracedPieces (matches[1])
LetterOf(piece) ==
    IF piece \in {"%{s}", "%{S}"} THEN "s" ELSE LetterTable[piece]

\* strings.ToLower on a macro letter
LowerOf(letter) ==
    CASE letter = "A" -> "a" [] letter = "L" -> "l" [] letter = "O" -> "o"
      [] letter = "D" -> "d" [] letter = "I" -> "i" [] letter = "P" -> "p"
      [] letter = "H" -> "h" [] letter = "C" -> "c" [] letter = "R" -> "r"
      [] letter = "T" -> "t" [] letter = "V" -> "v" [] OTHER -> letter

\* rfc3986Escape on a character that the values of the model hold: "@" and
\* ":" are escaped; letters, digits, "-", "." are not.  upper says whether
\* the macro letter is upper case (lines 201-203).
Escaped(ch, upper) ==
    IF ~upper THEN ch
    ELSE CASE ch = "@" -> "%40" [] ch = ":" -> "%3A" [] OTHER -> ch

\* The sender as a string, with at for its "@": local-part, "@" and domain
\* in one run of labels
SenderText(sender, at) ==
    IF ~sender.at THEN sender.dom
    ELSE IF Len(sender.dom) = 0 THEN <<sender.local \o at>>
    ELSE <<sender.local \o at \o sender.dom[1]>> \o Tail(sender.dom)

SenderLabels(sender) == SenderText(sender, "@")

\* hex.Encode: the hexadecimal digits
HexDigits == <<"0", "1", "2", "3", "4", "5", "6", "7", "8", "9",
               "a", "b", "c", "d", "e", "f">>

\* macro.go lines 156-166: the 32 nibbles of an IPv6 address, one per label
DottedNibbles(ip) ==
    [k \in 1..32 |->
        HexDigits[((ip[((k - 1) \div 4) + 1] \div (16 ^ (3 - ((k - 1) % 4)))) % 16) + 1]]

\* net.IP.String: a dotted quad is four labels; the IPv6 address of the
\* model is 2001:db8::1, written with colon for its ":"
IpString(ip, colon) ==
    IF To4(ip) THEN [k \in 1..4 |-> ToString(ip[k])]
    ELSE IF ip = ClientV6 THEN <<"2001" \o colon \o "db8" \o colon \o colon \o "1">>
    ELSE <<"ip6-address">>

Value(s, result) == [s |-> s, err |-> Nil, result |-> result]
NotInExp(letter, result) ==
    [s |-> <<>>, err |-> letter \o " macro not allowed outside exp", result |-> result]

\* macro.go line 167: the value of %{p} is what expandPtrMacro found
PtrValue(x) == Value(x.value, x.result)

\* The switch of macro.go lines 147-199 on the lower-cased letter, and the
\* escape of lines 201-203
LetterValue(letter, upper, result, domain, exp, o) ==
    CASE letter = "s" -> Value(SenderText(result.sender, Escaped("@", upper)), result)
      [] letter = "l" -> Value(<<result.sender.local>>, result)
      [] letter = "o" -> Value(TrimDot(result.sender.dom), result)
      [] letter = "d" -> Value(TrimDot(domain), result)
      [] letter = "i" -> Value(IF To4(result.ip) THEN IpString(result.ip, ":")
                               ELSE DottedNibbles(result.ip), result)
      [] letter = "p" -> PtrValue(expandPtrMacro(result, domain, o))
      [] letter = "h" -> Value(result.helo, result)
      [] letter = "v" -> Value(IF To4(result.ip) THEN <<"in-addr">> ELSE <<"ip6">>, result)
      [] letter = "c" -> IF exp THEN Value(IpString(result.ip, Escaped(":", upper)), result)
                         ELSE NotInExp("c", result)
      [] letter = "r" -> IF exp THEN Value(<<Hostname>>, result) ELSE NotInExp("r", result)
      [] letter = "t" -> IF exp THEN Value(<<"timestamp">>, result) ELSE NotInExp("t", result)
      [] OTHER -> [s |-> <<>>, err |-> "impossible macro-letter", result |-> result]

\* A faulty variant of MacroValue: c, r and t are expanded everywhere
MacroValueAnywhere(piece, result, domain, exp, o) ==
    IF piece \in EscapePieces
    THEN Value(<<CASE piece = "%%" -> "%" [] piece = "%_" -> " " [] OTHER -> "%20">>, result)
    ELSE IF piece \notin BracedPieces
    THEN [s |-> <<>>, err |-> "invalid macro", result |-> result]
    ELSE LetterValue(LowerOf(LetterOf(piece)), LetterOf(piece) \in UpperLetters,
                     result, domain, TRUE, o)

\* The replacement of the piece that starts with a % (macro.go lines
\* 126-199), as labels: %%, %_ and %- stand for "%", " " and "%20"; any
\* other piece that macroRe does not match is an error
MacroValue(piece, result, domain, exp, o) ==
    IF piece \in EscapePieces
    THEN Value(<<CASE piece = "%%" -> "%" [] piece = "%_" -> " " [] OTHER -> "%20">>, result)
    ELSE IF piece \notin BracedPieces
    THEN [s |-> <<>>, err |-> "invalid macro", result |-> result]
    ELSE LetterValue(LowerOf(LetterOf(piece)), LetterOf(piece) \in UpperLetters,
                     result, domain, exp, o)

RECURSIVE expandLoop(_, _, _, _, _, _, _)
\* macro.go expandMacro: v is the replacement of the piece at k
expandNext(domainSpec, k, acc, domain, exp, o, v) ==
    IF v.err # Nil
    THEN [s |-> <<>>, err |-> v.err, result |-> v.result]
    ELSE expandLoop(domainSpec, k + 1, acc \o v.s, v.result, domain, exp, o)

\* macro.go expandMacro, lines 121-240: the loop over the % of the string
expandLoop(domainSpec, k, acc, result, domain, exp, o) ==
    IF k > Len(domainSpec)
    THEN [s |-> acc, err |-> Nil, result |-> result]
    ELSE IF ~HasPercent(domainSpec[k])
    THEN expandLoop(domainSpec, k + 1, Append(acc, domainSpec[k]), result, domain, exp, o)
    ELSE expandNext(domainSpec, k, acc, domain, exp, o,
                    MacroValue(domainSpec[k], result, domain, exp, o))

\* macro.go ExpandMacro / expandMacro: a string without % is returned as is
ExpandMacro(domainSpec, result, domain, exp, o) ==
    IF \A k \in 1..Len(domainSpec) : ~HasPercent(domainSpec[k])
    THEN [s |-> domainSpec, err |-> Nil, result |-> result]
    ELSE expandLoop(domainSpec, 1, <<>>, result, domain, exp, o)

\* len(target): the octets of a name held as labels, with the dots between
\* them
RECURSIVE TextLen(_)
TextLen(labels) ==
    IF Len(labels) = 0 THEN 0
    ELSE IF Len(labels) = 1 THEN Len(labels[1])
    ELSE Len(labels[1]) + 1 + TextLen(Tail(labels))

\* The longest name that ExpandDomainSpec returns untrimmed (line 254)
MaxNameLen == 253

\* macro.go ExpandDomainSpec lines 257-267: parts are the labels that are
\* left, length the octets they take; strings.Join of no parts and of one
\* empty part is the empty string
RECURSIVE TrimLoop(_, _)
TrimLoop(parts, length) ==
    IF Len(parts) = 0
    THEN [s |-> <<>>, err |-> "oddly long TLD"]
    ELSE IF length - Len(parts[1]) - 1 <= MaxNameLen
    THEN [s |-> Tail(parts), err |-> Nil]
    ELSE TrimLoop(Tail(parts), length - Len(parts[1]) - 1)

\* macro.go ExpandDomainSpec lines 250-267, x what ExpandMacro returned
Trimmed(x) ==
    IF x.err # Nil THEN x
    ELSE IF TextLen(x.s) <= MaxNameLen THEN x
    ELSE [s |-> TrimLoop(x.s, TextLen(x.s)).s, err |-> TrimLoop(x.s, TextLen(x.s)).err,
          result |-> x.result]

\* macro.go ExpandDomainSpec
ExpandDomainSpec(domainSpec, result, domain, exp, o) ==
    IF domainSpec = <<>>
    THEN [s |-> domain, err |-> Nil, result |-> result]
    ELSE Trimmed(ExpandMacro(domainSpec, result, domain, exp, o))

(* ------------------------------------------------------------------ *)
(* mechanism.go, ptr.go: the mechanism evaluators.  Each returns the    *)
(* ResultType, the error and the Result it was given, updated.  o holds *)
(* the resolver's replies to the queries the evaluation makes; x is     *)
(* what ExpandDomainSpec returned, l and la what the lookups returned.  *)
(* ------------------------------------------------------------------ *)
Out(rt, err, result) == [rt |-> rt, err |-> err, result |-> result]

\* A faulty variant of Counted: a term is counted twice
CountedTwice(result) == [result EXCEPT !.DNSQueries = @ + 2]

\* result.DNSQueries++
Counted(result) == [result EXCEPT !.DNSQueries = @ + 1]

\* MechanismAll.Evaluate
EvaluateAll(m, result, domain, o) == Out(m.Qualifier, Nil, result)

\* MechanismIp4.Evaluate, MechanismIp6.Evaluate
EvaluateIp(m, result, domain, o) ==
    IF Contains(m.Net.IP, m.Net.ones, result.ip)
    THEN Out(m.Qualifier, Nil, result)
    ELSE Out(None, Nil, result)

\* A faulty variant of AMatch: the v4 mask is used for both families
AMatchOneMask(m, l) ==
    IF l.rt # None THEN Out(l.rt, l.err, l.result)
    ELSE IF \E k \in 1..Len(l.rrs) : Contains(l.rrs[k].data, m.Mask4, l.result.ip)
    THEN Out(m.Qualifier, Nil, l.result)
    ELSE Out(None, Nil, l.result)

\* MechanismA.Evaluate lines 152-164
AMatch(m, l) ==
    IF l.rt # None THEN Out(l.rt, l.err, l.result)
    ELSE IF \E k \in 1..Len(l.rrs) :
              \/ l.rrs[k].rrtype = "A" /\ Contains(l.rrs[k].data, m.Mask4, l.result.ip)
              \/ l.rrs[k].rrtype = "AAAA" /\ Contains(l.rrs[k].data, m.Mask6, l.result.ip)
    THEN Out(m.Qualifier, Nil, l.result)
    ELSE Out(None, Nil, l.result)

\* MechanismA.Evaluate lines 139-150
ALookup(m, x, o) ==
    IF x.err # Nil THEN Out(Permerror, x.err, x.result)
    ELSE IF ~validDomainName(x.s) THEN Out(None, "invalid hostname", x.result)
    ELSE AMatch(m, lookupDNS(o.addr, QType(x.result.ip), x.result))

\* MechanismA.Evaluate
EvaluateA(m, result, domain, o) ==
    ALookup(m, ExpandDomainSpec(m.DomainSpec, Counted(result), domain, FALSE, o), o)

RECURSIVE MXLoop(_, _, _, _, _)
\* MechanismMX.Evaluate lines 229-238: la is what the address lookup of the
\* k-th MX target returned
MXStep(m, mxrrs, k, o, la) ==
    IF la.rt # None THEN Out(la.rt, la.err, la.result)
    ELSE IF \E j \in 1..Len(la.addrs) :
              Contains(la.addrs[j], IF To4(la.result.ip) THEN m.Mask4 ELSE m.Mask6,
                       la.result.ip)
    THEN Out(m.Qualifier, Nil, la.result)
    ELSE MXLoop(m, mxrrs, k + 1, la.result, o)

\* The loop of MechanismMX.Evaluate over the MX records (lines 222-241);
\* o.mxaddr[k] is the reply to the address lookup of the k-th MX target
MXLoop(m, mxrrs, k, result, o) ==
    IF k > Len(mxrrs) THEN Out(None, Nil, result)
    ELSE IF k > MXAddressLimit THEN Out(Permerror, "MX limit", result)
    ELSE MXStep(m, mxrrs, k, o, lookupAddresses(o.mxaddr[k], QType(result.ip), result))

\* A faulty variant of MXRecords: an answer of more than MXAddressLimit
\* records is refused before any address lookup
MXRecordsCountedFirst(m, l, o) ==
    IF l.rt # None THEN Out(l.rt, l.err, l.result)
    ELSE IF Len(l.rrs) > MXAddressLimit THEN Out(Permerror, "MX limit", l.result)
    ELSE MXLoop(m, l.rrs, 1, l.result, o)

\* MechanismMX.Evaluate lines 217-222
MXRecords(m, l, o) ==
    IF l.rt # None THEN Out(l.rt, l.err, l.result)
    ELSE MXLoop(m, l.rrs, 1, l.result, o)

\* MechanismMX.Evaluate lines 209-217
MXLookup(m, x, o) ==
    IF x.err # Nil THEN Out(Permerror, x.err, x.result)
    ELSE IF ~validDomainName(x.s) THEN Out(None, "invalid hostname", x.result)
    ELSE MXRecords(m, lookupDNS(o.mx, "MX", x.result), o)

\* MechanismMX.Evaluate
EvaluateMX(m, result, domain, o) ==
    MXLookup(m, ExpandDomainSpec(m.DomainSpec, Counted(result), domain, FALSE, o), o)

\* MechanismExists.Evaluate lines 336-343
ExistsMatch(m, la) ==
    IF la.rt # None THEN Out(la.rt, la.err, la.result)
    ELSE IF Len(la.addrs) = 0 THEN Out(None, Nil, la.result)
    ELSE Out(m.Qualifier, Nil, la.result)

\* A faulty variant of ExistsLookup: the name is not looked up
ExistsLookupUnasked(m, x, o) ==
    IF x.err # Nil THEN Out(Permerror, x.err, x.result)
    ELSE IF ~validDomainName(x.s) THEN Out(None, "invalid hostname", x.result)
    ELSE Out(m.Qualifier, Nil, x.result)

\* MechanismExists.Evaluate lines 329-336
ExistsLookup(m, x, o) ==
    IF x.err # Nil THEN Out(Permerror, x.err, x.result)
    ELSE IF ~validDomainName(x.s) THEN Out(None, "invalid hostname", x.result)
    ELSE ExistsMatch(m, lookupAddresses(o.addr, "A", x.result))

\* MechanismExists.Evaluate
EvaluateExists(m, result, domain, o) ==
    ExistsLookup(m, ExpandDomainSpec(m.DomainSpec, Counted(result), domain, FALSE, o), o)

RECURSIVE PTRLoop(_, _, _, _, _, _)
\* A faulty variant of PTRStep: a failed forward lookup ends the search
PTRStepEndsOnError(m, rrs, k, target, o, la) ==
    IF la.err # Nil THEN Out(None, Nil, la.result)
    ELSE IF Validates(la, la.result.ip) THEN Out(m.Qualifier, Nil, la.result)
    ELSE PTRLoop(m, rrs, k + 1, la.result, target, o)

\* MechanismPTR.Evaluate lines 99-110: la is what the forward lookup of the
\* k-th PTR name returned
PTRStep(m, rrs, k, target, o, la) ==
    IF la.err # Nil THEN PTRLoop(m, rrs, k + 1, la.result, target, o)
    ELSE IF Validates(la, la.result.ip) THEN Out(m.Qualifier, Nil, la.result)
    ELSE PTRLoop(m, rrs, k + 1, la.result, target, o)

\* The loop of MechanismPTR.Evaluate over the PTR records (ptr.go 92-111)
PTRLoop(m, rrs, k, result, target, o) ==
    IF k > Len(rrs) THEN Out(None, Nil, result)
    ELSE IF ~IsSubDomain(target, rrs[k].data)
    THEN PTRLoop(m, rrs, k + 1, result, target, o)
    ELSE PTRStep(m, rrs, k, target, o,
                 lookupAddresses(o.fwd[rrs[k].data], QType(result.ip), result))

\* MechanismPTR.Evaluate lines 75-90
PTRRecords(m, l, target, o) ==
    IF l.err # Nil THEN Out(l.rt, l.err, l.result)
    ELSE PTRLoop(m, Truncate(l.rrs), 1, l.result, target, o)

\* MechanismPTR.Evaluate lines 62-75
PTRLookup(m, x, o) ==
    IF x.err # Nil THEN Out(Permerror, x.err, x.result)
    ELSE IF ~validDomainName(Fqdn(x.s)) THEN Out(Fail, "invalid hostname", x.result)
    ELSE PTRRecords(m, lookupDNS(o.ptr, "PTR", x.result), Fqdn(x.s), o)

\* MechanismPTR.Evaluate (ptr.go 53-112)
EvaluatePTR(m, result, domain, o) ==
    PTRLookup(m, ExpandDomainSpec(m.DomainSpec, result, domain, FALSE, o), o)

\* Mechanism.Evaluate of every kind but include, which recurses
Evaluate(m, result, domain, o) ==
    CASE m.kind = "all" -> EvaluateAll(m, result, domain, o)
      [] m.kind \in {"ip4", "ip6"} -> EvaluateIp(m, result, domain, o)
      [] m.kind = "a" -> EvaluateA(m, result, domain, o)
      [] m.kind = "mx" -> EvaluateMX(m, result, domain, o)
      [] m.kind = "exists" -> EvaluateExists(m, result, domain, o)
      [] m.kind = "ptr" -> EvaluatePTR(m, result, domain, o)

\* A faulty variant of IncludeOutcome: "none" from the included domain is
\* passed on as no match
IncludeOutcomeNoneAsNoMatch(m, includeResult) ==
    CASE includeResult = Pass -> m.Qualifier
      [] includeResult \in {Fail, Softfail, Neutral, None} -> None
      [] includeResult = Temperror -> Temperror
      [] includeResult = Permerror -> Permerror

\* The outcome of MechanismInclude.Evaluate once the recursive checkHost
\* has returned includeResult (mechanism.go lines 91-101)
IncludeOutcome(m, includeResult) ==
    CASE includeResult = Pass -> m.Qualifier
      [] includeResult \in {Fail, Softfail, Neutral} -> None
      [] includeResult = Temperror -> Temperror
      [] includeResult \in {Permerror, None} -> Permerror

(* ------------------------------------------------------------------ *)
(* The resolver's data: what the model lets it answer                   *)
(* ------------------------------------------------------------------ *)
D1 == <<"d1", "test", "">>
D2 == <<"d2", "test", "">>
D3 == <<"d3", "test", "">>
ExampleCom == <<"example", "com", "">>
Domains == {D1, D2, D3, ExampleCom}

Qualifiers == {Pass, Fail, Softfail, Neutral}

NoNet == [IP |-> <<>>, ones |-> 0]
Mech(kind, q, spec) ==
    [kind |-> kind, Qualifier |-> q, DomainSpec |-> spec,
     Mask4 |-> 32, Mask6 |-> 128, Net |-> NoNet]
MechIp4(q, ip, ones) ==
    [kind |-> "ip4", Qualifier |-> q, DomainSpec |-> <<>>,
     Mask4 |-> 32, Mask6 |-> 128, Net |-> [IP |-> ip, ones |-> ones]]
MechA(q, spec, ones4, ones6) ==
    [kind |-> "a", Qualifier |-> q, DomainSpec |-> spec,
     Mask4 |-> ones4, Mask6 |-> ones6, Net |-> NoNet]

\* SPFRecord (the parsed record)
Record(mechanisms, redirect, exp) ==
    [Mechanisms |-> mechanisms, Redirect |-> redirect, Exp |-> exp]

(* ------------------------------------------------------------------ *)
(* mechanism.go: NewMechanism and the String methods.                   *)
(* The text of a mechanism is held as its parts, in the order in which  *)
(* they are written:  qual name [":"] spec ["/" len4] ["//" len6].      *)
(*   qual   the first character if it is one of + - ~ ?, else ""        *)
(*   name   the letters up to the first ":" or "/"                      *)
(*   colon  whether a ":" follows the name                              *)
(*   form   what spec is: "dom" (labels of a domain-spec), "v4" (a      *)
(*          dotted quad, 4 octets), "v6" (an IPv6 literal, 8 groups),   *)
(*          "" (nothing)                                                *)
(*   len4   the decimal number after a single "/", Absent without one   *)
(*   len6   the decimal number after "//", Absent without one           *)
(* ------------------------------------------------------------------ *)
Absent == -1

Raw(qual, name, colon, form, spec, len4, len6) ==
    [qual |-> qual, name |-> name, colon |-> colon, form |-> form,
     spec |-> spec, len4 |-> len4, len6 |-> len6]

\* strings.ToLower on the names of the model
ToLower(s) ==
    CASE s = "ALL" -> "all"
      [] s = "A" -> "a"
      [] s = "Include" -> "include"
      [] s = "IP4" -> "ip4"
      [] s = "EXP" -> "exp"
      [] s = "Redirect" -> "redirect"
      [] OTHER -> s

\* A faulty variant of QualifierOf: without a qualifier character the
\* qualifier is neutral
QualifierOfDefaultNeutral(qual) ==
    CASE qual = "+" -> Pass
      [] qual = "-" -> Fail
      [] qual = "~" -> Softfail
      [] OTHER -> Neutral

\* NewMechanism lines 410-426
QualifierOf(qual) ==
    CASE qual = "+" -> Pass
      [] qual = "-" -> Fail
      [] qual = "~" -> Softfail
      [] qual = "?" -> Neutral
      [] OTHER -> Pass

\* NewMechanism lines 428-441: parameter is "", emptyParam
NoParameter(raw) == Len(raw.spec) = 0 /\ raw.len4 = Absent /\ raw.len6 = Absent
EmptyParam(raw) == raw.colon /\ NoParameter(raw)

\* MacroIsValid on the pieces of a domain-spec: every % starts %%, %-,
\* %_ or a %{...} that macroRe matches
MacroIsValid(spec) ==
    \A k \in 1..Len(spec) : HasPercent(spec[k]) => spec[k] \in MacroPieces

\* ptr.go validDomainSpec: a valid domain name, or valid macros and at the
\* end a macro or a top label
validDomainSpec(spec) ==
    \/ validDomainName(spec)
    \/ /\ MacroIsValid(spec)
       /\ Len(spec) > 0
       /\ \/ Last(spec) \in BracedPieces
          \/ Len(TrimDot(spec)) >= 2 /\ Last(TrimDot(spec)) \in TopLabels

\* ptr.go validOptionalDomainSpec
validOptionalDomainSpec(spec) == Len(spec) = 0 \/ validDomainSpec(spec)

\* What NewMechanism returns: the mechanism, or an error
Made(m) == [m |-> m, err |-> Nil]
Refused(why) == [m |-> Mech("none", None, <<>>), err |-> why]

\* dualCIDR lines 358-383 on the lengths after the domain-spec
dualCIDR(raw) ==
    IF raw.len6 # Absent /\ raw.len6 > 128 THEN [err |-> "invalid ipv6 cidr range"]
    ELSE IF raw.len4 # Absent /\ raw.len4 > 32 THEN [err |-> "invalid ipv4 cidr range"]
    ELSE [err |-> Nil,
          v4 |-> IF raw.len4 = Absent THEN 32 ELSE raw.len4,
          v6 |-> IF raw.len6 = Absent THEN 128 ELSE raw.len6]

\* NewMechanism, cases "a" and "mx": d is what dualCIDR returned
NewDual(kind, raw, d) ==
    IF EmptyParam(raw) THEN Refused("empty domain")
    ELSE IF d.err # Nil THEN Refused(d.err)
    ELSE IF raw.form \notin {"", "dom"} \/ ~validOptionalDomainSpec(raw.spec)
    THEN Refused("invalid domain-spec")
    ELSE Made([MechA(QualifierOf(raw.qual), raw.spec, d.v4, d.v6) EXCEPT !.kind = kind])

\* NewMechanism, cases "include" and "exists"
NewNamed(kind, raw) ==
    IF NoParameter(raw) THEN Refused("requires a domain spec")
    ELSE IF \/ raw.form # "dom" \/ raw.len4 # Absent \/ raw.len6 # Absent
            \/ ~validDomainSpec(raw.spec)
    THEN Refused("invalid domain-spec")
    ELSE Made(Mech(kind, QualifierOf(raw.qual), raw.spec))

\* NewMechanism, case "ptr"
NewPtr(raw) ==
    IF EmptyParam(raw) THEN Refused("empty domain")
    ELSE IF \/ raw.form \notin {"", "dom"} \/ raw.len4 # Absent \/ raw.len6 # Absent
            \/ ~validOptionalDomainSpec(raw.spec)
    THEN Refused("invalid domain-spec")
    ELSE Made(Mech("ptr", QualifierOf(raw.qual), raw.spec))

\* The 16 bytes of an address (netip.Addr.As16), as 8 groups: an IPv4
\* address is put behind ::ffff:
As16(form, a) ==
    IF form = "v4" THEN <<0, 0, 0, 0, 0, 65535, a[1] * 256 + a[2], a[3] * 256 + a[4]>>
    ELSE a

\* net.IP.To4: the 4 octets of a 4-byte address or of a 16-byte address
\* behind ::ffff:, else <<>> (nil)
GoTo4(ip) ==
    IF Len(ip) = 4 THEN ip
    ELSE IF (\A k \in 1..5 : ip[k] = 0) /\ ip[6] = 65535
    THEN <<ip[7] \div 256, ip[7] % 256, ip[8] \div 256, ip[8] % 256>>
    ELSE <<>>

\* The first r bits of a piece of w bits, the others cleared
KeepBits(x, w, r) ==
    IF r >= w THEN x
    ELSE IF r <= 0 THEN 0
    ELSE (x \div (2 ^ (w - r))) * (2 ^ (w - r))

\* net.IP.Mask with a mask of ones one-bits on pieces of w bits
MaskIP(ip, w, ones) == [k \in 1..Len(ip) |-> KeepBits(ip[k], w, ones - (k - 1) * w)]

\* net.ParseCIDR, and the look at the mask of ptr.go parseCIDR: the address
\* (16 bytes) and the network.  The network of an IPv4 text has 4 bytes and a
\* 32-bit mask, that of an IPv6 text 16 bytes and a 128-bit mask.
parseCIDR(form, a, n) ==
    IF form \notin {"v4", "v6"} THEN [err |-> "CIDR address"]
    ELSE IF n > (IF form = "v4" THEN 32 ELSE 128) THEN [err |-> "CIDR address"]
    ELSE [err |-> Nil,
          ip |-> As16(form, a),
          cidr |-> IF form = "v4" THEN [IP |-> MaskIP(a, 8, n), ones |-> n]
                   ELSE [IP |-> MaskIP(a, 16, n), ones |-> n]]

\* NewMechanism, cases "ip4" and "ip6": c is what parseCIDR returned
NewIp(kind, raw, c) ==
    IF raw.len6 # Absent \/ c.err # Nil THEN Refused("invalid address format")
    ELSE IF kind = "ip4" /\ GoTo4(c.ip) = <<>> THEN Refused("non-IP4 address in ip4")
    ELSE IF kind = "ip6" /\ Len(c.ip) # 8 THEN Refused("non-IP6 address in ip6")
    ELSE Made([MechIp4(QualifierOf(raw.qual), c.cidr.IP, c.cidr.ones) EXCEPT !.kind = kind])

\* NewMechanism lines 386-551, on a text that is not empty
NewMechanism(raw) ==
    CASE ToLower(raw.name) = "all" ->
           IF ~NoParameter(raw) THEN Refused("all doesn't take parameters")
           ELSE Made(Mech("all", QualifierOf(raw.qual), <<>>))
      [] ToLower(raw.name) \in {"include", "exists"} -> NewNamed(ToLower(raw.name), raw)
      [] ToLower(raw.name) \in {"a", "mx"} -> NewDual(ToLower(raw.name), raw, dualCIDR(raw))
      [] ToLower(raw.name) = "ptr" -> NewPtr(raw)
      [] ToLower(raw.name) = "ip4" ->
           NewIp("ip4", raw, parseCIDR(raw.form, raw.spec,
                                       IF raw.len4 = Absent THEN 32 ELSE raw.len4))
      [] ToLower(raw.name) = "ip6" ->
           NewIp("ip6", raw, parseCIDR(raw.form, raw.spec,
                                       IF raw.len4 = Absent THEN 128 ELSE raw.len4))
      [] OTHER -> Refused("unrecognized mechanism")

\* ResultChar
ResultChar(q) ==
    CASE q = Neutral -> "?"
      [] q = Fail -> "-"
      [] q = Softfail -> "~"
      [] OTHER -> ""

\* (*net.IPNet).String: address and prefix length.  A network that To4
\* turns into 4 bytes is written as IPv4, and a 128-bit mask is then cut to
\* its last 32 bits.
NetString(n) ==
    IF GoTo4(n.IP) # <<>>
    THEN [form |-> "v4", a |-> GoTo4(n.IP),
          n |-> IF Len(n.IP) = 8 THEN n.ones - 96 ELSE n.ones]
    ELSE [form |-> "v6", a |-> n.IP, n |-> n.ones]

\* mechanismString lines 565-588 for a mechanism with a domain-spec
mechanismString(m) ==
    Raw(ResultChar(m.Qualifier), m.kind, Len(m.DomainSpec) > 0,
        IF Len(m.DomainSpec) > 0 THEN "dom" ELSE "", m.DomainSpec,
        IF m.kind \in {"a", "mx"} /\ m.Mask4 # 32 THEN m.Mask4 ELSE Absent,
        IF m.kind \in {"a", "mx"} /\ m.Mask6 # 128 THEN m.Mask6 ELSE Absent)

\* MechanismIp4.String, MechanismIp6.String: t is Net.String()
ipString(m, t) == Raw(ResultChar(m.Qualifier), m.kind, TRUE, t.form, t.a, t.n, Absent)

\* The String method of mechanism m
String(m) ==
    IF m.kind \in {"ip4", "ip6"} THEN ipString(m, NetString(m.Net)) ELSE mechanismString(m)

\* Address replies: transport error, NXDOMAIN, SERVFAIL, no answer, and
\* answers of one or two records
AddrRRs == {RR("A", ClientV4), RR("A", NearV4), RR("AAAA", ClientV6)}
AddrReplies ==
    {NetErr, Reply("NXDOMAIN", <<>>), Reply("SERVFAIL", <<>>), Reply("NOERROR", <<>>)}
    \cup {Reply("NOERROR", <<rr>>) : rr \in AddrRRs}
    \cup {Reply("NOERROR", <<RR("A", NearV4), RR("A", ClientV4)>>)}

\* Replies to the address lookup of a host named by an MX or PTR record:
\* transport error, NXDOMAIN, the client's addresses, another address
HostReplies ==
    {NetErr, Reply("NXDOMAIN", <<>>),
     Reply("NOERROR", <<RR("A", ClientV4), RR("AAAA", ClientV6)>>),
     Reply("NOERROR", <<RR("A", NearV4)>>)}

PtrHosts == {<<"mail", "d1", "test", "">>, <<"alt", "d1", "test", "">>,
             <<"host", "example", "">>}
\* PTR answers of up to PtrAddressLimit + 1 records: the host below d1.test
\* throughout, or the other host first, or the other host in each of the
\* first PtrAddressLimit records, or two hosts below d1.test
PtrReplies ==
    {NetErr, Reply("NXDOMAIN", <<>>), Reply("SERVFAIL", <<>>)}
    \cup {Reply("NOERROR", [k \in 1..n |-> RR("PTR", <<"mail", "d1", "test", "">>)]) :
            n \in 0..(PtrAddressLimit + 1)}
    \cup {Reply("NOERROR", [k \in 1..n |-> RR("PTR", IF k = 1 THEN <<"host", "example", "">>
                                                      ELSE <<"mail", "d1", "test", "">>)]) :
            n \in 1..(PtrAddressLimit + 1)}
    \cup {Reply("NOERROR", [k \in 1..(PtrAddressLimit + 1) |->
                              RR("PTR", IF k <= PtrAddressLimit
                                        THEN <<"host", "example", "">>
                                        ELSE <<"mail", "d1", "test", "">>)]),
          Reply("NOERROR", <<RR("PTR", <<"alt", "d1", "test", "">>),
                             RR("PTR", <<"mail", "d1", "test", "">>)>>)}
MXReplies ==
    {NetErr, Reply("NXDOMAIN", <<>>), Reply("SERVFAIL", <<>>)}
    \cup {Reply("NOERROR", [k \in 1..n |-> RR("MX", <<"mx", "d1", "test", "">>)]) :
            n \in 0..(MXAddressLimit + 1)}

NoOracle ==
    [addr |-> NetErr, mx |-> NetErr, ptr |-> NetErr,
     mxaddr |-> [k \in 1..MXAddressLimit |-> NetErr],
     fwd |-> [h \in PtrHosts |-> NetErr]]

UsesP(spec) == \E k \in 1..Len(spec) : spec[k] = "%{p}"

\* The replies the resolver may give to a PTR query and to the forward
\* lookups of the hosts it names
PtrOracles ==
    UNION {{[NoOracle EXCEPT !.ptr = pr, !.fwd = fw] :
              fw \in {f \in [PtrHosts -> HostReplies] :
                        \A h \in PtrHosts :
                            (pr.err \/ \A k \in 1..Len(pr.answer) : pr.answer[k].data # h)
                                => f[h] = NetErr}} :
           pr \in PtrReplies}

\* The replies the resolver may give during one Evaluate of m
Oracles(m) ==
    LET base == IF UsesP(m.DomainSpec) THEN PtrOracles ELSE {NoOracle}
    IN  CASE m.kind \in {"a", "exists"} ->
               {[o EXCEPT !.addr = ar] : o \in base, ar \in AddrReplies}
          [] m.kind = "mx" ->
               UNION {{[o EXCEPT !.mx = mr, !.mxaddr = ma] :
                         o \in base,
                         ma \in {f \in [1..MXAddressLimit -> HostReplies] :
                                   \A k \in 1..MXAddressLimit :
                                       (mr.err \/ k > Len(mr.answer)) => f[k] = NetErr}} :
                      mr \in MXReplies}
          [] m.kind = "ptr" -> PtrOracles
          [] OTHER -> base

\* The zone block.example holds one name, 1.2.3.4.block.example, with an
\* A record; any other name below it does not exist
BlockZone == <<"block", "example">>
ListedName == <<"1", "2", "3", "4", "block", "example">>
BlockReplies(name) ==
    IF TrimDot(name) = ListedName
    THEN Reply("NOERROR", <<RR("A", <<127, 0, 0, 1>>)>>)
    ELSE Reply("NXDOMAIN", <<>>)

\* The replies the resolver may give during one Evaluate of m, x being
\* the expansion of its domain-spec: a name below block.example is
\* answered from that zone
OraclesFor(m, x) ==
    IF m.kind = "exists" /\ x.err = Nil /\ IsSubDomain(BlockZone, x.s)
    THEN {[NoOracle EXCEPT !.addr = BlockReplies(x.s)]}
    ELSE Oracles(m)

(* ------------------------------------------------------------------ *)
(* ParseSPF (part_003 lines 277-326) on the fields of a record after    *)
(* its version section.  A field that modifierRe matches is name=value; *)
(* any other field is handed to NewMechanism.  OtherModifiers is kept   *)
(* by the source and never read: the model does not hold it.            *)
(* ------------------------------------------------------------------ *)
NoRecord == Record(<<>>, <<>>, <<>>)
NoRaw == Raw("", "", FALSE, "", <<>>, Absent, Absent)
Modifier(name, value) == [name |-> name, value |-> value, raw |-> NoRaw]
Term(raw) == [name |-> "", value |-> <<>>, raw |-> raw]

\* What ParseSPF returns
ParsedAs(rec) == [rec |-> rec, err |-> Nil]
ParseError(why) == [rec |-> NoRecord, err |-> why]

\* A faulty variant of ParseModifier: a later redirect or exp replaces the
\* earlier one
ParseModifierLastWins(rec, field) ==
    CASE ToLower(field.name) = "redirect" ->
           IF ~validDomainSpec(field.value) THEN ParseError("invalid domain-spec in redirect")
           ELSE ParsedAs([rec EXCEPT !.Redirect = field.value])
      [] ToLower(field.name) = "exp" ->
           IF ~validDomainSpec(field.value) THEN ParseError("invalid domain-spec in exp")
           ELSE ParsedAs([rec EXCEPT !.Exp = field.value])
      [] OTHER ->
           IF ~MacroIsValid(field.value) THEN ParseError("invalid macro-string in modifier")
           ELSE ParsedAs(rec)

\* ParseSPF lines 293-315: the field is a modifier
ParseModifier(rec, field) ==
    CASE ToLower(field.name) = "redirect" ->
           IF rec.Redirect # <<>> THEN ParseError("multiple redirect modifiers")
           ELSE IF ~validDomainSpec(field.value)
           THEN ParseError("invalid domain-spec in redirect")
           ELSE ParsedAs([rec EXCEPT !.Redirect = field.value])
      [] ToLower(field.name) = "exp" ->
           IF rec.Exp # <<>> THEN ParseError("multiple exp modifiers")
           ELSE IF ~validDomainSpec(field.value)
           THEN ParseError("invalid domain-spec in exp")
           ELSE ParsedAs([rec EXCEPT !.Exp = field.value])
      [] OTHER ->
           IF ~MacroIsValid(field.value) THEN ParseError("invalid macro-string in modifier")
           ELSE ParsedAs(rec)

\* ParseSPF lines 318-322: the field is a mechanism, n what NewMechanism
\* made of it
ParseMechanism(rec, n) ==
    IF n.err # Nil THEN ParseError(n.err)
    ELSE ParsedAs([rec EXCEPT !.Mechanisms = Append(@, n.m)])

\* ParseSPF lines 291-322: one field
ParseField(rec, field) ==
    IF field.name # "" THEN ParseModifier(rec, field)
    ELSE ParseMechanism(rec, NewMechanism(field.raw))

RECURSIVE ParseLoop(_, _, _)
\* ParseSPF lines 287-325: the loop over the fields, p what the fields
\* before the k-th gave
ParseLoop(fields, k, p) ==
    IF p.err # Nil \/ k > Len(fields) THEN p
    ELSE ParseLoop(fields, k + 1, ParseField(p.rec, fields[k]))

ParseFields(fields) == ParseLoop(fields, 1, ParsedAs(NoRecord))

(* ------------------------------------------------------------------ *)
(* TXT data: the text of a TXT record, as far as the checker reads it   *)
(* ------------------------------------------------------------------ *)
\* The texts of TXT records: version is the text up to its first space
\* (all of it when it holds none), bad and rec say what checkHostCore and
\* ParseSPF make of it.  A text may instead be given by its fields, which
\* ParseSPF then reads one by one.
\* A text that starts with the version section "v=spf1" and parses to rec
SpfText(rec) == [version |-> "v=spf1", bad |-> "", rec |-> rec, fields |-> <<>>]
\* A text with a version section of "v=spf10": not an SPF record
OtherText == [version |-> "v=spf10", bad |-> "", rec |-> NoRecord, fields |-> <<>>]
\* SPF records that checkHostCore rejects: a character outside printable
\* ASCII (invalidCharRe), a term that ParseSPF does not accept
BadCharText == [version |-> "v=spf1", bad |-> "char", rec |-> NoRecord, fields |-> <<>>]
SyntaxText == [version |-> "v=spf1", bad |-> "syntax", rec |-> NoRecord, fields |-> <<>>]
\* getSPFRecord's "" for no record
NoText == [version |-> "", bad |-> "", rec |-> NoRecord, fields |-> <<>>]

\* The same record with its version section in upper case ("V=SPF1 ...")
UpperText(rec) == [version |-> "V=SPF1", bad |-> "", rec |-> rec, fields |-> <<>>]
\* "v=spf1" followed by a tab: the text holds no space, so all of it is its
\* version field
TabText == [version |-> "v=spf1\t-all", bad |-> "", rec |-> NoRecord, fields |-> <<>>]

\* "v=spf1" and then the fields
FieldsText(fields) ==
    [version |-> "v=spf1", bad |-> "", rec |-> NoRecord, fields |-> fields]

\* The (?i) of spfPrefixRe: letter case is ignored
FoldCase(s) == CASE s = "V=SPF1" -> "v=spf1" [] OTHER -> s

\* A faulty variant of spfPrefix: no look at what follows "v=spf1"
spfPrefixUnterminated(text) ==
    FoldCase(text.version) \in {"v=spf1", "v=spf10", "v=spf1\t-all"}

\* spfPrefixRe.MatchString: "v=spf1", in any case, then a space or the end
spfPrefix(text) == FoldCase(text.version) = "v=spf1"

\* ptr.go getSPFRecord, m the resolver's reply to the TXT query
getSPFRecord(m, result) ==
    LET r0 == Resolved(result)
        spfRecords == SelectSeq(m.answer,
                        LAMBDA rr : rr.rrtype = "TXT" /\ spfPrefix(rr.data))
    IN  IF m.err
        THEN [record |-> NoText, rt |-> Temperror, err |-> "transport", result |-> r0]
        ELSE IF m.rcode \notin {"NOERROR", "NXDOMAIN"}
        THEN [record |-> NoText, rt |-> Temperror, err |-> Nil, result |-> r0]
        ELSE IF Len(spfRecords) = 0
        THEN [record |-> NoText, rt |-> None, err |-> Nil, result |-> r0]
        ELSE IF Len(spfRecords) = 1
        THEN [record |-> spfRecords[1].data, rt |-> None, err |-> Nil, result |-> r0]
        ELSE [record |-> NoText, rt |-> Permerror, err |-> Nil, result |-> r0]

\* ParseSPF, on the texts of the model
ParseSPF(text) ==
    IF text.bad = "syntax" THEN [rec |-> NoRecord, err |-> "syntax"]
    ELSE IF text.fields # <<>> THEN ParseFields(text.fields)
    ELSE [rec |-> text.rec, err |-> Nil]

(* ------------------------------------------------------------------ *)
(* result.go: Result, and the arguments of Checker.SPF                  *)
(* ------------------------------------------------------------------ *)
\* A sender or mailFrom string: local-part, whether it has an "@", domain
Sender(local, at, dom) == [local |-> local, at |-> at, dom |-> dom]
EmptyString == Sender("", FALSE, <<>>)

\* Result{Type: None, ip: ip, sender: mailFrom, helo: helo, c: c}
NewResult(ip, mailFrom, helo, nq) ==
    [Type |-> None, Error |-> Nil, DNSQueries |-> 0, VoidLookups |-> 0,
     Explanation |-> <<>>, UsedHelo |-> FALSE,
     ip |-> ip, sender |-> mailFrom, helo |-> helo, c |-> TRUE, nq |-> nq]

\* var result Result
ZeroResult ==
    [Type |-> None, Error |-> Nil, DNSQueries |-> 0, VoidLookups |-> 0,
     Explanation |-> <<>>, UsedHelo |-> FALSE,
     ip |-> <<>>, sender |-> EmptyString, helo |-> <<>>, c |-> FALSE, nq |-> 0]

\* Result.AuthenticationResults: hostname, code, property and its value;
\* a Result without its Checker cannot be rendered
AuthenticationResults(r) ==
    IF ~r.c THEN <<"panic">>
    ELSE IF r.UsedHelo THEN <<Hostname, "spf=" \o r.Type, "smtp.helo", r.helo>>
    ELSE <<Hostname, "spf=" \o r.Type, "smtp.mailfrom", SenderLabels(r.sender)>>

\* A faulty variant of Postmaster: only a sender without "@" is given the
\* local-part, one that begins with "@" is left alone
PostmasterWithoutAtOnly(sender) ==
    IF ~sender.at THEN Sender("postmaster", TRUE, sender.dom) ELSE sender

\* checkHostCore lines 151-156: the local-part postmaster
Postmaster(sender) ==
    LET s1 == IF ~sender.at THEN Sender("postmaster", TRUE, sender.dom) ELSE sender
    IN  IF s1.local = "" THEN [s1 EXCEPT !.local = "postmaster"] ELSE s1

(* ------------------------------------------------------------------ *)
(* checkHostCore: one frame per invocation                              *)
(*   st   "walk" in the loop over the mechanisms, at mechanism i         *)
(*        "call" inside the checkHost of an include mechanism           *)
(*        "tail" inside the checkHost of the redirect modifier          *)
(*        "ret"  returned, with value ret                               *)
(*   evald, qidx, fetched record what the invocation has done: the      *)
(*   mechanisms evaluated with their results, the mechanisms during     *)
(*   whose evaluation the resolver was called, whether the TXT query    *)
(*   was made                                                           *)
(* ------------------------------------------------------------------ *)
Frame(domain, include, redirect) ==
    [domain |-> domain, include |-> include, redirect |-> redirect,
     st |-> "walk", i |-> 1, rec |-> NoRecord, ret |-> None,
     evald |-> <<>>, qidx |-> {}, fetched |-> FALSE, nq0 |-> 0]

Return(f, rt) == [f EXCEPT !.st = "ret", !.ret = rt]

Returned(f, rt, result) == [frame |-> Return(f, rt), result |-> result]

\* checkHostCore lines 194-198: p is what ParseSPF returned
Parsed(f, result, p) ==
    IF p.err # Nil
    THEN Returned(f, Permerror, [result EXCEPT !.Error = p.err])
    ELSE [frame |-> [f EXCEPT !.rec = p.rec], result |-> result]

\* checkHostCore lines 173-198: g is what getSPFRecord returned
Fetched(f, g) ==
    IF g.err # Nil
    THEN Returned(f, g.rt, [g.result EXCEPT !.Error = g.err])
    ELSE IF g.record = NoText
    THEN Returned(f, IF f.redirect THEN Permerror ELSE g.rt, g.result)
    ELSE IF g.record.bad = "char"
    THEN Returned(f, Permerror, [g.result EXCEPT !.Error = "invalid character"])
    ELSE Parsed(f, g.result, ParseSPF(g.record))

\* checkHostCore lines 151-167
Started(result) == [Counted(result) EXCEPT !.sender = Postmaster(@)]

\* A faulty variant of CheckHostEntry: the budget is not looked at before
\* the TXT query (lines 168-171 left out)
CheckHostEntryNoBudget(result, domain, include, redirect, m) ==
    IF ~IsDomainName(domain)
    THEN Returned(Frame(domain, include, redirect), None,
                  [result EXCEPT !.Error = "invalid domain"])
    ELSE IF ~IsFqdn(domain)
    THEN Returned(Frame(domain, include, redirect), None,
                  [result EXCEPT !.Error = "not fqdn"])
    ELSE Fetched([Frame(domain, include, redirect) EXCEPT !.fetched = TRUE],
                 getSPFRecord(m, Started(result)))

\* A faulty variant of CheckHostEntry: the invocation counts from scratch
CheckHostEntryFreshCounters(result, domain, include, redirect, m) ==
    IF ~IsDomainName(domain)
    THEN Returned(Frame(domain, include, redirect), None,
                  [result EXCEPT !.Error = "invalid domain"])
    ELSE IF ~IsFqdn(domain)
    THEN Returned(Frame(domain, include, redirect), None,
                  [result EXCEPT !.Error = "not fqdn"])
    ELSE Fetched([Frame(domain, include, redirect) EXCEPT !.fetched = TRUE],
                 getSPFRecord(m, [Started(result) EXCEPT !.DNSQueries = 1,
                                                         !.VoidLookups = 0]))

\* checkHostCore lines 138-198, m the reply to the TXT query if one is made
CheckHostEntry(result, domain, include, redirect, m) ==
    IF ~IsDomainName(domain)
    THEN Returned(Frame(domain, include, redirect), None,
                  [result EXCEPT !.Error = "invalid domain"])
    ELSE IF ~IsFqdn(domain)
    THEN Returned(Frame(domain, include, redirect), None,
                  [result EXCEPT !.Error = "not fqdn"])
    ELSE IF Started(result).DNSQueries > DNSLimit
    THEN Returned(Frame(domain, include, redirect), Permerror,
                  [Started(result) EXCEPT !.Error = "dns limit"])
    ELSE Fetched([Frame(domain, include, redirect) EXCEPT !.fetched = TRUE],
                 getSPFRecord(m, Started(result)))

\* Whether checkHostCore gets as far as the TXT query
WillFetch(result, domain) ==
    IsDomainName(domain) /\ IsFqdn(domain) /\ result.DNSQueries + 1 <= DNSLimit

(* ------------------------------------------------------------------ *)
(* checkHostCore lines 199-250: after a mechanism, the explanation      *)
(* ------------------------------------------------------------------ *)
\* Whether lines 211-229 are entered
WantsExp(f, rt, err) ==
    err = Nil /\ ~f.include /\ rt = Fail /\ f.rec.Exp # <<>>

\* Line 226: t is what ExpandMacro made of the text of the TXT record
Explained(f, t) == Returned(f, Fail, [t.result EXCEPT !.Explanation = t.s])

\* Line 223 and the type assertion of line 224
OneTxt(er) ==
    /\ ~er.err
    /\ er.rcode = "NOERROR"
    /\ Len(er.answer) = 1
    /\ er.answer[1].rrtype = "TXT"

\* Lines 213-230: x is what ExpandDomainSpec made of the exp modifier, er
\* the reply to the TXT query for the explanation
ExpTarget(f, x, er) ==
    IF x.err # Nil
    THEN Returned(f, Permerror, [x.result EXCEPT !.Error = x.err])
    ELSE IF ~validDomainName(x.s)
    THEN Returned(f, Permerror, x.result)
    ELSE IF OneTxt(er)
    THEN Explained(f, ExpandMacro(er.answer[1].data, Resolved(x.result), f.domain,
                                  TRUE, NoOracle))
    ELSE Returned(f, Fail, Resolved(x.result))

\* Lines 212-230: the exp modifier of a failing record
ExpOutcome(f, result, er) ==
    ExpTarget(f, ExpandDomainSpec(f.rec.Exp, result, f.domain, FALSE, NoOracle), er)

\* A faulty variant of AfterMechanism: the walk goes on past a mechanism
\* that returned neutral
AfterMechanismPastNeutral(f, result, rt, err, er) ==
    LET r1 == [result EXCEPT !.Type = rt]
    IN  IF r1.DNSQueries > DNSLimit
        THEN Returned(f, Permerror, [r1 EXCEPT !.Error = "dns limit"])
        ELSE IF rt # None /\ rt # Neutral
        THEN LET r2 == [r1 EXCEPT !.Error = err]
             IN  IF WantsExp(f, rt, err)
                 THEN ExpOutcome(f, r2, er)
                 ELSE Returned(f, rt, r2)
        ELSE [frame |-> [f EXCEPT !.i = @ + 1], result |-> r1]

\* A faulty variant of AfterMechanism: the budget is not looked at after a
\* mechanism (lines 205-208 left out)
AfterMechanismNoBudget(f, result, rt, err, er) ==
    LET r1 == [result EXCEPT !.Type = rt]
    IN  IF rt # None
        THEN LET r2 == [r1 EXCEPT !.Error = err]
             IN  IF WantsExp(f, rt, err)
                 THEN ExpOutcome(f, r2, er)
                 ELSE Returned(f, rt, r2)
        ELSE [frame |-> [f EXCEPT !.i = @ + 1], result |-> r1]

\* Lines 201-231: the mechanism at f.i has returned (rt, err)
AfterMechanism(f, result, rt, err, er) ==
    LET r1 == [result EXCEPT !.Type = rt]
    IN  IF r1.DNSQueries > DNSLimit
        THEN Returned(f, Permerror, [r1 EXCEPT !.Error = "dns limit"])
        ELSE IF rt # None
        THEN LET r2 == [r1 EXCEPT !.Error = err]
             IN  IF WantsExp(f, rt, err)
                 THEN ExpOutcome(f, r2, er)
                 ELSE Returned(f, rt, r2)
        ELSE [frame |-> [f EXCEPT !.i = @ + 1], result |-> r1]

\* The texts an explanation record may hold
ExpTexts == {<<"denied">>, <<"%{c}", "denied">>, <<"%x">>}
ExpReplies ==
    {NetErr, Reply("SERVFAIL", <<>>), Reply("NOERROR", <<>>),
     Reply("NOERROR", <<RR("CNAME", <<"e", "example", "">>)>>),
     Reply("NOERROR", <<RR("TXT", <<"denied">>), RR("TXT", <<"denied">>)>>)}
    \cup {Reply("NOERROR", <<RR("TXT", t)>>) : t \in ExpTexts}

\* What the frame has done for its mechanism i: its result (sub the
\* value of the recursive checkHost of an include, or "-"), whether the
\* resolver was called while the mechanism was evaluated (nq before, and
\* mid when Evaluate returned), and whether it was called at all in this
\* turn of the loop (after: the explanation's query included)
Noted(f, i, rt, sub, before, mid, after) ==
    [f EXCEPT !.evald = Append(@, [idx |-> i, rt |-> rt, sub |-> sub,
                                   asked |-> mid > before]),
              !.qidx = IF after > before THEN @ \cup {i} ELSE @]

\* An outcome a of AfterMechanism, with the frame's notes
NotedOutcome(a, i, rt, sub, before, mid) ==
    [frame |-> Noted(a.frame, i, rt, sub, before, mid, a.result.nq), result |-> a.result]

\* The name why.example.com holds one TXT record, "%{c} denied"
WhyName == <<"why", "example", "com">>
WhyReply == Reply("NOERROR", <<RR("TXT", <<"%{c}", "denied">>)>>)

\* The replies the resolver may give to the TXT query for the explanation,
\* x being the expansion of the exp modifier
ExpRepliesFor(x) ==
    IF x.err = Nil /\ TrimDot(x.s) = WhyName THEN {WhyReply} ELSE ExpReplies

\* The outcomes of the step of the loop once the mechanism at f.i has
\* returned (rt, err): every reply the explanation query may get
Afters(f, result, rt, err, sub, before) ==
    {NotedOutcome(AfterMechanism(f, result, rt, err, er), f.i, rt, sub, before, result.nq) :
       er \in IF WantsExp(f, rt, err) /\ result.DNSQueries <= DNSLimit
              THEN ExpRepliesFor(ExpandDomainSpec(f.rec.Exp, result, f.domain,
                                                  FALSE, NoOracle))
              ELSE {NetErr}}

(* ------------------------------------------------------------------ *)
(* The published records and the calls of Checker.SPF that the model    *)
(* explores                                                             *)
(* ------------------------------------------------------------------ *)
E1 == <<"e", "test">>
Net4 == [IP |-> <<192, 0, 2, 0>>, ones |-> 24]
Net6 == [IP |-> <<8193, 3512, 0, 0, 0, 0, 0, 0>>, ones |-> 32]

\* The terms that do not recurse, one of each kind
Terms ==
    {Mech("all", Fail, <<>>),
     MechIp4(Pass, Net4.IP, Net4.ones),
     MechA(Fail, <<>>, 32, 128),
     Mech("mx", Softfail, <<>>),
     Mech("exists", Neutral, <<"%{l}", "wl", "test">>),
     Mech("ptr", Pass, <<>>)}

MaxMechs == 2
SeqsUpTo(S, n) == UNION {[1..k -> S] : k \in 0..n}
Walks == {Record(ms, <<>>, <<>>) : ms \in SeqsUpTo(Terms, MaxMechs)}

Include(q, spec) == Mech("include", q, spec)

\* Records with an include mechanism
Includes ==
    {Record(ms, <<>>, <<>>) :
       ms \in {<<Include(q, <<"d2", "test">>)>> : q \in Qualifiers}
             \cup {<<Include(Pass, <<"d2", "test">>), Mech("all", Fail, <<>>)>>,
                   <<Include(Pass, <<"%{c}", "test">>), Mech("all", Fail, <<>>)>>,
                   <<Include(Pass, <<"%{l}">>), Mech("all", Pass, <<>>)>>,
                   <<Include(Pass, <<"d2", "test">>), MechA(Pass, <<>>, 32, 128)>>,
                   <<[MechIp4(Softfail, Net6.IP, Net6.ones) EXCEPT !.kind = "ip6"],
                     Include(Neutral, <<"d3", "test">>)>>}}

\* Records with a modifier
Modified ==
    {Record(ms, rd, ex) :
       ms \in {<<>>, <<Mech("all", Fail, <<>>)>>, <<MechA(Fail, <<>>, 32, 128)>>,
               <<Include(Fail, <<"d2", "test">>)>>},
       rd \in {<<>>, <<"d2", "test">>, <<"%{c}", "test">>, <<"%{l}">>},
       ex \in {<<>>, E1, <<"%{c}", "test">>, <<"%{l}">>}}

\* Records with a domain-spec that NewMechanism and ParseSPF accept (the
\* string is a valid domain name) and that does not expand
MacroFaults ==
    {Record(<<MechA(Pass, <<"%{c}", "test">>, 32, 128)>>, <<>>, <<>>),
     Record(<<Mech("mx", Pass, <<"%x", "test">>)>>, <<>>, <<>>),
     Record(<<Mech("exists", Pass, <<"%{r}", "test">>)>>, <<>>, <<>>),
     Record(<<Mech("ptr", Pass, <<"%{t}", "test">>)>>, <<>>, <<>>),
     Record(<<Mech("include", Pass, <<"%", "test">>)>>, <<>>, <<>>),
     Record(<<>>, <<"%{d", "test">>, <<>>)}

\* Records with a domain-spec that expands to a name validDomainName
\* rejects: one label (the local-part), or a last label of digits (the
\* client's address)
InvalidTargets ==
    {Record(<<m, Mech("all", Softfail, <<>>)>>, <<>>, <<>>) :
       m \in {MechA(Pass, <<"%{l}">>, 32, 128),
              Mech("mx", Pass, <<"%{i}">>),
              Mech("exists", Pass, <<"%{l}">>),
              Mech("ptr", Pass, <<"%{l}">>),
              Mech("ptr", Neutral, <<"%{i}">>)}}

\* The terms of "v=spf1 exists:%{i}.block.example -all", as NewMechanism
\* makes them
BlockTerms ==
    <<NewMechanism(Raw("", "exists", TRUE, "dom", <<"%{i}", "block", "example">>,
                       Absent, Absent)).m,
      NewMechanism(Raw("-", "all", FALSE, "", <<>>, Absent, Absent)).m>>
BlockRecord == Record(BlockTerms, <<>>, <<>>)
Listed == <<1, 2, 3, 4>>
Unlisted == <<5, 6, 7, 8>>

\* Fields of records: modifiers in either letter case, with a value that is
\* a domain-spec, empty, or not a macro-string; mechanisms
FieldMenu ==
    {Modifier("redirect", <<"d2", "test">>), Modifier("Redirect", <<"d3", "test">>),
     Modifier("redirect", <<>>),
     Modifier("exp", E1), Modifier("EXP", <<"%{d}">>),
     Modifier("foo", <<"%{d}">>), Modifier("foo", <<"%x">>),
     Term(Raw("-", "all", FALSE, "", <<>>, Absent, Absent)),
     Term(Raw("", "bogus", FALSE, "", <<>>, Absent, Absent))}
MaxFields == 3
FieldSeqs == SeqsUpTo(FieldMenu, MaxFields)

\* Records given by their fields, with a modifier that is there twice, or
\* once
FieldTexts ==
    {FieldsText(<<Term(Raw("-", "all", FALSE, "", <<>>, Absent, Absent)),
                  Modifier("redirect", <<"d2", "test">>),
                  Modifier("Redirect", <<"d3", "test">>)>>),
     FieldsText(<<Modifier("redirect", <<"d2", "test">>),
                  Modifier("redirect", <<"d2", "test">>)>>),
     FieldsText(<<Modifier("exp", E1),
                  Term(Raw("-", "all", FALSE, "", <<>>, Absent, Absent)),
                  Modifier("EXP", <<"%{d}">>)>>),
     FieldsText(<<Modifier("foo", <<"%{d}">>), Modifier("exp", E1),
                  Modifier("Redirect", <<"d3", "test">>)>>),
     FieldsText(<<Modifier("foo", <<"%{d}">>), Modifier("foo", <<"%{d}">>),
                  Term(Raw("-", "all", FALSE, "", <<>>, Absent, Absent))>>)}

\* Records that recurse: into their own domain, into each other
Loops ==
    {Record(<<Include(Pass, <<"%{d}">>)>>, <<>>, <<>>),
     Record(<<MechA(Pass, <<>>, 32, 128), Include(Pass, <<"d2", "test">>)>>, <<>>, <<>>),
     Record(<<MechA(Pass, <<>>, 32, 128), MechA(Pass, <<>>, 32, 128)>>, <<"%{d}">>, <<>>),
     Record(<<Include(Pass, <<"d1", "test">>)>>, <<>>, <<>>),
     Record(<<>>, <<"d1", "test">>, <<>>),
     Record(<<>>, <<"d3", "test">>, <<>>)}

\* n "a" terms with the default target, then -all
ManyA(n) ==
    Record([k \in 1..(n + 1) |-> IF k <= n THEN MechA(Pass, <<>>, 32, 128)
                                          ELSE Mech("all", Fail, <<>>)], <<>>, <<>>)

\* Records that reach the limit of line 17 in one invocation and that stay
\* one term below it
AtBudget == {ManyA(DNSLimit), ManyA(DNSLimit - 1)}

NotRecords ==
    {NetErr, Reply("SERVFAIL", <<>>), Reply("NXDOMAIN", <<>>),
     Reply("NOERROR", <<RR("TXT", OtherText)>>),
     Reply("NOERROR", <<RR("TXT", SpfText(NoRecord)), RR("TXT", SpfText(NoRecord))>>),
     Reply("NOERROR", <<RR("TXT", BadCharText)>>),
     Reply("NOERROR", <<RR("TXT", SyntaxText)>>)}

Published(rec) == Reply("NOERROR", <<RR("TXT", OtherText), RR("TXT", SpfText(rec))>>)

\* Replies that differ in how the version section is written
Versions ==
    {Reply("NOERROR", <<RR("TXT", UpperText(Record(<<Mech("all", Fail, <<>>)>>, <<>>, <<>>)))>>),
     Reply("NOERROR", <<RR("TXT", TabText)>>),
     Reply("NOERROR", <<RR("TXT", UpperText(NoRecord)), RR("A", NearV4),
                        RR("TXT", SpfText(NoRecord))>>)}

\* The replies to the TXT query for each name
TxtReplies(name) ==
    CASE name = D1 ->
           NotRecords \cup Versions
                      \cup {Reply("NOERROR", <<RR("TXT", t)>>) : t \in FieldTexts}
                      \cup {Published(r) : r \in Walks \cup Includes \cup Modified \cup Loops
                                                \cup MacroFaults \cup InvalidTargets
                                                \cup AtBudget}
      [] name = D2 ->
           NotRecords \cup {Published(Record(<<Mech("all", q, <<>>)>>, <<>>, <<>>)) : q \in Qualifiers}
                      \cup {Published(r) : r \in Loops}
                      \cup {Published(Record(<<>>, <<>>, <<>>)),
                            Published(Record(<<Mech("all", Fail, <<>>)>>, <<>>, E1))}
      [] name = D3 ->
           {Reply("NXDOMAIN", <<>>),
            Published(Record(<<>>, <<>>, <<>>)),
            Published(Record(<<Mech("all", Fail, <<>>)>>, <<>>, E1)),
            Published(Record(<<Mech("all", Pass, <<>>)>>, <<>>, <<>>))}
      [] name = ExampleCom -> {Published(BlockRecord)}
      [] OTHER -> {Reply("NXDOMAIN", <<>>)}

\* The calls SPF(ip, mailFrom, helo)
Calls ==
    {[ip |-> ClientV4, mailFrom |-> Sender("user", TRUE, <<"d1", "test">>), helo |-> <<>>],
     [ip |-> ClientV6, mailFrom |-> Sender("", FALSE, <<"d1", "test">>), helo |-> <<"d3", "test">>],
     [ip |-> ClientV4, mailFrom |-> Sender("", TRUE, <<"d2", "test">>), helo |-> <<"mail", "", "test">>],
     [ip |-> ClientV4, mailFrom |-> EmptyString, helo |-> <<"d3", "test">>],
     [ip |-> ClientV6, mailFrom |-> EmptyString, helo |-> <<>>],
     [ip |-> Listed, mailFrom |-> Sender("user", TRUE, <<"example", "com">>), helo |-> <<>>],
     [ip |-> Unlisted, mailFrom |-> Sender("user", TRUE, <<"example", "com">>), helo |-> <<>>]}

(* ------------------------------------------------------------------ *)
(* State                                                                *)
(*   args    the arguments of the call of Checker.SPF                   *)
(*   pc      where SPF is: "start", "helo" (in the checkHost for the    *)
(*           HELO name), "mid" (past the HELO block), "mail" (in the    *)
(*           checkHost for the mailFrom domain), "done" (returned)      *)
(*   result  SPF's local variable result, which checkHost updates       *)
(*   stack   the checkHostCore invocations in progress, outermost first *)
(*   zone    the TXT reply for each name, Unasked until first queried   *)
(*   calls   the top-level checkHost calls SPF has made so far, each    *)
(*           with its value and the resolver calls made until it ended  *)
(*   out     what a function of the package returned when it is called  *)
(*           on its own (PureSpec); Nil otherwise                       *)
(*   peer    a second call of SPF on the same Checker, on another       *)
(*           goroutine (ConcSpec); Nil otherwise                        *)
(*   resolver  the DefaultResolver of the Checker, with the slices its  *)
(*           Resolve made (ResolveSpec); Nil otherwise                  *)
(*   gor     the goroutines that are inside Resolve, each with its      *)
(*           position and local variables (ResolveSpec); Nil otherwise  *)
(* ------------------------------------------------------------------ *)
VARIABLES args, pc, result, stack, zone, calls, out, peer, resolver, gor

vars == <<args, pc, result, stack, zone, calls, out, peer, resolver, gor>>

\* Not a reply: the name has not been queried yet
Unasked == Reply("unasked", <<>>)

Init ==
    /\ args \in Calls
    /\ pc = "start"
    /\ result = ZeroResult
    /\ stack = <<>>
    /\ zone = [d \in Domains |-> Unasked]
    /\ calls = <<>>
    /\ out = Nil
    /\ peer = Nil
    /\ resolver = Nil
    /\ gor = Nil

Top == stack[Len(stack)]
SetTop(f) == [stack EXCEPT ![Len(stack)] = f]

\* The replies the resolver may give to the TXT query for domain
Answers(domain) ==
    IF domain \in Domains /\ zone[domain] # Unasked
    THEN {zone[domain]}
    ELSE TxtReplies(domain)

\* The invocation e that CheckHostEntry made is pushed on the caller's
\* frames; m becomes the zone's reply for domain if the query was made
Entered(below, e, nq0, domain, fetch, m) ==
    /\ result' = e.result
    /\ stack' = Append(below, [e.frame EXCEPT !.nq0 = nq0])
    /\ zone' = IF fetch /\ domain \in Domains THEN [zone EXCEPT ![domain] = m] ELSE zone

\* c.checkHost(ctx, result, domain, include, redirect) is entered from a
\* caller whose frames are below; checkHostCore runs up to its loop
Enter(below, res, domain, include, redirect) ==
    \E m \in IF WillFetch(res, domain) THEN Answers(domain) ELSE {NetErr} :
        Entered(below, CheckHostEntry(res, domain, include, redirect, m),
                res.nq, domain, WillFetch(res, domain), m)

\* The loop of frame f goes on from what its mechanism returned (ev), with
\* the caller's frames below
Step(below, f, ev, sub, before) ==
    \E a \in Afters(f, ev.result, ev.rt, ev.err, sub, before) :
        /\ result' = a.result
        /\ stack' = Append(below, a.frame)

\* SPF lines 74-82
HeloCall ==
    /\ pc = "start"
    /\ args.helo # <<>>
    /\ Enter(<<>>, NewResult(args.ip, args.mailFrom, args.helo, 0),
             Fqdn(args.helo), FALSE, FALSE)
    /\ pc' = "helo"
    /\ calls' = Append(calls, [id |-> "helo", domain |-> Fqdn(args.helo),
                               rt |-> "-", nq |-> 0])
    /\ UNCHANGED <<args, out, peer, resolver, gor>>

\* A faulty variant of Decisive: only "none" lets SPF go on to mailFrom
DecisiveButNone(r) == r # None

\* SPF line 84: the HELO result that ends SPF
Decisive(r) == r # None /\ r # Neutral

\* SPF lines 83-87
HeloReturn ==
    /\ pc = "helo"
    /\ Len(stack) = 1
    /\ Top.st = "ret"
    /\ LET r == Top.ret
       IN  /\ result' = [result EXCEPT !.Type = r, !.UsedHelo = Decisive(r)]
           /\ pc' = IF Decisive(r) THEN "done" ELSE "mid"
           /\ calls' = [calls EXCEPT ![Len(calls)].rt = r, ![Len(calls)].nq = result.nq]
    /\ stack' = <<>>
    /\ UNCHANGED <<args, zone, out, peer, resolver, gor>>

PastHelo == pc = "mid" \/ (pc = "start" /\ args.helo = <<>>)

\* SPF lines 89-98
MailCall ==
    /\ PastHelo
    /\ args.mailFrom # EmptyString
    /\ Enter(<<>>, NewResult(args.ip, args.mailFrom, args.helo, result.nq),
             Fqdn(args.mailFrom.dom), FALSE, FALSE)
    /\ pc' = "mail"
    /\ calls' = Append(calls, [id |-> "mailfrom", domain |-> Fqdn(args.mailFrom.dom),
                               rt |-> "-", nq |-> result.nq])
    /\ UNCHANGED <<args, out, peer, resolver, gor>>

\* SPF lines 99-101
MailReturn ==
    /\ pc = "mail"
    /\ Len(stack) = 1
    /\ Top.st = "ret"
    /\ result' = [result EXCEPT !.Type = Top.ret]
    /\ pc' = "done"
    /\ calls' = [calls EXCEPT ![Len(calls)].rt = Top.ret, ![Len(calls)].nq = result.nq]
    /\ stack' = <<>>
    /\ UNCHANGED <<args, zone, out, peer, resolver, gor>>

\* SPF lines 89, 101 with an empty mailFrom
NoMail ==
    /\ PastHelo
    /\ args.mailFrom = EmptyString
    /\ pc' = "done"
    /\ UNCHANGED <<args, result, stack, zone, calls, out, peer, resolver, gor>>

Walking == stack # <<>> /\ Top.st = "walk"

Below == SubSeq(stack, 1, Len(stack) - 1)
Mechanism == Top.rec.Mechanisms[Top.i]

\* One turn of the loop of checkHostCore for a mechanism that does not
\* recurse: Evaluate and lines 201-231
EvalMechanism ==
    /\ Walking
    /\ Top.i <= Len(Top.rec.Mechanisms)
    /\ Mechanism.kind # "include"
    /\ \E x \in {ExpandDomainSpec(Mechanism.DomainSpec, result, Top.domain, FALSE, NoOracle)} :
       \E o \in OraclesFor(Mechanism, x) :
       \E ev \in {Evaluate(Mechanism, result, Top.domain, o)} :
           Step(Below, Top, ev, "-", result.nq)
    /\ UNCHANGED <<args, pc, zone, calls, out, peer, resolver, gor>>

\* MechanismInclude.Evaluate lines 82-89: x is what ExpandDomainSpec made
\* of the target; without a valid name lines 201-231 follow at once
IncludeTarget(f, x) ==
    IF x.err # Nil
    THEN Step(Below, f, Out(Permerror, x.err, x.result), "-", result.nq) /\ zone' = zone
    ELSE IF ~validDomainName(x.s)
    THEN Step(Below, f, Out(None, "invalid hostname", x.result), "-", result.nq)
         /\ zone' = zone
    ELSE Enter(SetTop([f EXCEPT !.st = "call"]), x.result, Fqdn(x.s), TRUE, FALSE)

\* MechanismInclude.Evaluate lines 80-89: up to the recursive checkHost
IncludeCall ==
    /\ Walking
    /\ Top.i <= Len(Top.rec.Mechanisms)
    /\ Mechanism.kind = "include"
    /\ \E x \in {ExpandDomainSpec(Mechanism.DomainSpec, result, Top.domain, FALSE, NoOracle)} :
           IncludeTarget(Top, x)
    /\ UNCHANGED <<args, pc, calls, out, peer, resolver, gor>>

\* A faulty variant of Caller: the loop goes on with the <domain> of the
\* included record
CallerInIncluded == [stack[Len(stack) - 1] EXCEPT !.st = "walk", !.domain = Top.domain]

\* The frame of the include mechanism whose checkHost has returned
Caller == [stack[Len(stack) - 1] EXCEPT !.st = "walk"]

\* MechanismInclude.Evaluate lines 91-101 and checkHostCore lines 201-231,
\* once the recursive checkHost has returned
IncludeReturn ==
    /\ Len(stack) >= 2
    /\ Top.st = "ret"
    /\ stack[Len(stack) - 1].st = "call"
    /\ Step(SubSeq(stack, 1, Len(stack) - 2), Caller,
            Out(IncludeOutcome(Caller.rec.Mechanisms[Caller.i], Top.ret), Nil, result),
            Top.ret, Top.nq0)
    /\ UNCHANGED <<args, pc, zone, calls, out, peer, resolver, gor>>

\* checkHostCore line 250: no mechanism matched, no redirect
FellOff ==
    /\ Walking
    /\ Top.i > Len(Top.rec.Mechanisms)
    /\ Top.rec.Redirect = <<>>
    /\ stack' = SetTop(Return(Top, Neutral))
    /\ UNCHANGED <<args, pc, result, zone, calls, out, peer, resolver, gor>>

\* checkHostCore lines 241-248: x is what ExpandDomainSpec made of the
\* redirect modifier
RedirectTarget(f, x) ==
    IF x.err # Nil \/ ~validDomainName(x.s)
    THEN /\ result' = x.result
         /\ stack' = SetTop(Return(f, Permerror))
         /\ zone' = zone
    ELSE Enter(SetTop([f EXCEPT !.st = "tail"]), x.result, Fqdn(x.s), FALSE, TRUE)

\* checkHostCore lines 235-248: no mechanism matched, the redirect modifier
RedirectCall ==
    /\ Walking
    /\ Top.i > Len(Top.rec.Mechanisms)
    /\ Top.rec.Redirect # <<>>
    /\ \E x \in {ExpandDomainSpec(Top.rec.Redirect, result, Top.domain, FALSE, NoOracle)} :
           RedirectTarget(Top, x)
    /\ UNCHANGED <<args, pc, calls, out, peer, resolver, gor>>

\* checkHostCore line 248: the redirect's checkHost has returned
RedirectReturn ==
    /\ Len(stack) >= 2
    /\ Top.st = "ret"
    /\ stack[Len(stack) - 1].st = "tail"
    /\ stack' = Append(SubSeq(stack, 1, Len(stack) - 2),
                       Return(stack[Len(stack) - 1], Top.ret))
    /\ UNCHANGED <<args, pc, result, zone, calls, out, peer, resolver, gor>>

Next ==
    \/ HeloCall
    \/ HeloReturn
    \/ MailCall
    \/ MailReturn
    \/ NoMail
    \/ EvalMechanism
    \/ IncludeCall
    \/ IncludeReturn
    \/ FellOff
    \/ RedirectCall
    \/ RedirectReturn

Spec == Init /\ [][Next]_vars


\* The same program against a resolver whose TXT data is fixed in advance
\* to records that include or redirect to themselves and to each other.
\* SPF is a sequential function: whenever a step is possible, one is taken
\* (weak fairness of Next).
LoopInit ==
    /\ args \in Calls
    /\ pc = "start"
    /\ result = ZeroResult
    /\ stack = <<>>
    /\ calls = <<>>
    /\ out = Nil
    /\ peer = Nil
    /\ resolver = Nil
    /\ gor = Nil
    /\ \E r1 \in {Published(r) : r \in Loops},
          r2 \in {Published(r) : r \in Loops}
                 \cup {Reply("NXDOMAIN", <<>>),
                       Published(Record(<<Mech("all", Fail, <<>>)>>, <<>>, E1))},
          r3 \in {Published(Record(<<>>, <<>>, <<>>)),
                  Published(Record(<<Include(Pass, <<"d1", "test">>)>>, <<>>, <<>>)),
                  Published(Record(<<Mech("all", Fail, <<>>)>>, <<>>, E1))} :
           zone = [d \in Domains |-> IF d = D1 THEN r1 ELSE IF d = D2 THEN r2 ELSE r3]

LoopSpec == LoopInit /\ [][Next]_vars /\ WF_vars(Next)

(* ------------------------------------------------------------------ *)
(* macro.go lines 201-232: the escape and the transformers of one       *)
(* macro, on a replacement held character by character.  limit is       *)
(* matches[2] as strconv.Atoi reads it (Absent when it is empty),       *)
(* reverse whether matches[3] is "r", delims the characters of          *)
(* matches[4].                                                          *)
(* ------------------------------------------------------------------ *)
\* shouldEscape, on the characters that the replacements of the model hold
shouldEscape(c) == c \in {"+", "@", "=", "/", ","}

\* '%', upperhex[c>>4], upperhex[c&15]
PercentHex(c) ==
    CASE c = "+" -> <<"%", "2", "B">>
      [] c = "@" -> <<"%", "4", "0">>
      [] c = "=" -> <<"%", "3", "D">>
      [] c = "/" -> <<"%", "2", "F">>
      [] OTHER -> <<"%", "2", "C">>

RECURSIVE rfc3986Escape(_)
\* macro.go rfc3986Escape
rfc3986Escape(str) ==
    IF Len(str) = 0 THEN <<>>
    ELSE (IF shouldEscape(str[1]) THEN PercentHex(str[1]) ELSE <<str[1]>>)
         \o rfc3986Escape(Tail(str))

\* strings.IndexAny(replacement, macroDelimiters), 0 for -1
IndexAny(str, delims) ==
    IF \E i \in 1..Len(str) : str[i] \in delims
    THEN CHOOSE i \in 1..Len(str) :
             str[i] \in delims /\ \A j \in 1..(i - 1) : str[j] \notin delims
    ELSE 0

RECURSIVE SplitAny(_, _, _)
\* The loop of lines 209-217: parts so far, replacement what is left
SplitAny(parts, replacement, delims) ==
    IF IndexAny(replacement, delims) = 0
    THEN Append(parts, replacement)
    ELSE SplitAny(Append(parts, SubSeq(replacement, 1, IndexAny(replacement, delims) - 1)),
                  SubSeq(replacement, IndexAny(replacement, delims) + 1, Len(replacement)),
                  delims)

\* Lines 218-222: the parts in reverse order
Reversed(parts) == [k \in 1..Len(parts) |-> parts[Len(parts) + 1 - k]]

\* A faulty variant of Limited: the leftmost parts are kept
LimitedLeft(parts, limit) ==
    IF limit # Absent /\ limit < Len(parts) THEN SubSeq(parts, 1, limit) ELSE parts

\* Lines 223-228: parts[len(parts)-limit:]
Limited(parts, limit) ==
    IF limit # Absent /\ limit < Len(parts)
    THEN SubSeq(parts, Len(parts) - limit + 1, Len(parts))
    ELSE parts

RECURSIVE Joined(_)
\* strings.Join(parts, ".")
Joined(parts) ==
    IF Len(parts) = 0 THEN <<>>
    ELSE IF Len(parts) = 1 THEN parts[1]
    ELSE parts[1] \o <<".">> \o Joined(Tail(parts))

\* Lines 204-231
Transformed(replacement, limit, reverse, delims) ==
    IF limit = Absent /\ ~reverse /\ delims = {} THEN replacement
    ELSE Joined(Limited(IF reverse
                        THEN Reversed(SplitAny(<<>>, replacement,
                                               IF delims = {} THEN {"."} ELSE delims))
                        ELSE SplitAny(<<>>, replacement,
                                      IF delims = {} THEN {"."} ELSE delims),
                        limit))

\* Lines 201-231: upper says whether the macro letter is upper case
Replaced(replacement, upper, limit, reverse, delims) ==
    Transformed(IF upper THEN rfc3986Escape(replacement) ELSE replacement,
                limit, reverse, delims)

(* ------------------------------------------------------------------ *)
(* The exported functions called on their own: NewMechanism and the     *)
(* String methods, MacroIsValid and ExpandMacro, Mechanism.Evaluate.    *)
(* args holds the function's name (fn) and its arguments, pc is that    *)
(* name until the function has returned and out is what it returned.    *)
(* ------------------------------------------------------------------ *)
\* The mechanism texts that are parsed
RawQuals == {"", "+", "-", "~", "?"}
RawNames == {"all", "ALL", "include", "a", "mx", "ptr", "ip4", "ip6", "exists", "bogus"}
MappedV4 == <<0, 0, 0, 0, 0, 65535, 49152, 589>>
RawSpecs ==
    {[form |-> "", spec |-> <<>>],
     [form |-> "dom", spec |-> <<"d1", "test">>],
     [form |-> "dom", spec |-> <<"%{d}">>],
     [form |-> "dom", spec |-> <<"%x", "test">>],
     [form |-> "dom", spec |-> <<"%{s}">>],
     [form |-> "dom", spec |-> <<"nodots">>],
     [form |-> "v4", spec |-> <<192, 0, 2, 77>>],
     [form |-> "v6", spec |-> ClientV6],
     [form |-> "v6", spec |-> MappedV4]}
RawLens4 == {Absent, 0, 24, 32, 33, 64, 104, 128, 129}
RawLens6 == {Absent, 0, 64, 128, 129}
RawMechanisms ==
    {Raw(qual, name, colon, s.form, s.spec, len4, len6) :
        qual \in RawQuals, name \in RawNames, colon \in BOOLEAN, s \in RawSpecs,
        len4 \in RawLens4, len6 \in RawLens6}

MechanismCalls ==
    {[fn |-> "NewMechanism", raw |-> raw] :
        raw \in {r \in RawMechanisms : Len(r.spec) > 0 => r.colon}}

\* The macro-strings that are expanded: one piece with a %, alone, before
\* a label and after one; a string without %
MacroSpecs ==
    UNION {{<<piece>>, <<piece, "test">>, <<"x", piece>>} :
             piece \in MacroPieces \cup BadPieces}
    \cup {<<"x", "test">>}

\* The replies to the PTR query of %{p}: none, and one validated name
MacroOracles ==
    {NoOracle,
     [NoOracle EXCEPT !.ptr = Reply("NOERROR", <<RR("PTR", <<"mail", "d1", "test", "">>)>>),
                      !.fwd = [h \in PtrHosts |-> Reply("NOERROR", <<RR("A", ClientV4)>>)]]}

MacroCalls ==
    {[fn |-> "ExpandMacro", spec |-> spec, exp |-> exp, ip |-> ip,
      mailFrom |-> mailFrom, helo |-> <<"mail", "test">>, o |-> o] :
        spec \in MacroSpecs, exp \in BOOLEAN, ip \in {ClientV4, ClientV6},
        mailFrom \in {Sender("user", TRUE, <<"d1", "test">>),
                      Sender("", TRUE, <<"d2", "test">>),
                      Sender("", FALSE, <<"d1", "test">>)},
        o \in MacroOracles}

\* The resolver outcomes that lookupDNS is given: those of the address, MX
\* and PTR menus, another failing RCODE, a name error that carries a
\* record, and answers that mix the types
LookupReplies ==
    AddrReplies \cup MXReplies \cup PtrReplies
    \cup {Reply("REFUSED", <<>>),
          Reply("NXDOMAIN", <<RR("A", NearV4)>>),
          Reply("NOERROR", <<RR("AAAA", ClientV6), RR("A", NearV4), RR("A", ClientV4)>>),
          Reply("NOERROR", <<RR("PTR", <<"mail", "d1", "test", "">>),
                             RR("MX", <<"mx", "d1", "test", "">>)>>)}

\* The calls c.lookupDNS(ctx, hostname, qtype, result), with the void
\* lookups that result has counted before the call
LookupCalls ==
    {[fn |-> "lookupDNS", m |-> m, qtype |-> qtype, void |-> void] :
        m \in LookupReplies, qtype \in {"A", "AAAA", "MX", "PTR"},
        void \in 0..(VoidQueryLimit + 1)}

\* The expansions of %{p} with every reply to the PTR query and to the
\* forward lookups
PtrMacroCalls ==
    {[fn |-> "ExpandMacro", spec |-> <<"%{p}">>, exp |-> FALSE, ip |-> ip,
      mailFrom |-> Sender("user", TRUE, <<"d1", "test">>), helo |-> <<"mail", "test">>,
      o |-> o] :
        ip \in {ClientV4, ClientV6}, o \in PtrOracles}

\* The mechanisms that are evaluated on their own: ptr, and mx with the
\* default prefix lengths and with /24
EvaluatedTerms ==
    {Mech("ptr", Pass, <<>>), Mech("mx", Softfail, <<>>),
     [Mech("mx", Pass, <<>>) EXCEPT !.Mask4 = 24]}

\* The calls m.Evaluate(ctx, &result, domain), with the resolver's replies
EvaluateCalls ==
    {[fn |-> "Evaluate", m |-> c[1], o |-> c[2], ip |-> ip,
      mailFrom |-> Sender("user", TRUE, <<"d1", "test">>), helo |-> <<"mail", "test">>] :
        c \in UNION {{<<m, o>> : o \in Oracles(m)} : m \in EvaluatedTerms},
        ip \in {ClientV4, ClientV6}}

\* An address in the client's /32 and not in its /64; replies to the
\* address query of an a mechanism that mix the families
OtherV6 == <<8193, 3512, 0, 1, 0, 0, 0, 1>>
MixedReplies ==
    AddrReplies
    \cup {Reply("NOERROR", <<RR("AAAA", OtherV6)>>),
          Reply("NOERROR", <<RR("AAAA", OtherV6), RR("A", NearV4)>>),
          Reply("NOERROR", <<RR("A", ClientV4), RR("AAAA", OtherV6)>>),
          Reply("NOERROR", <<RR("A", NearV4), RR("AAAA", ClientV6)>>)}

\* The a mechanisms that are evaluated on their own: a, a/24//64, a/0//0
\* and a/32//0
ATerms ==
    {MechA(Fail, <<>>, 32, 128), MechA(Pass, <<>>, 24, 64), MechA(Softfail, <<>>, 0, 0),
     MechA(Neutral, <<>>, 32, 0)}

AddressCalls ==
    {[fn |-> "Evaluate", m |-> m, o |-> [NoOracle EXCEPT !.addr = ar], ip |-> ip,
      mailFrom |-> Sender("user", TRUE, <<"d1", "test">>), helo |-> <<"mail", "test">>] :
        m \in ATerms, ar \in MixedReplies, ip \in {ClientV4, ClientV6}}

\* Labels of 63, 53 and 54 octets, and a local-part of 254
Label53 == "ccccccccccccccccccccccccccccccccccccccccccccccccccccc"
Label54 == "dddddddddddddddddddddddddddddddddddddddddddddddddddddd"
Label63 == "aaaaaaaaaaaaaaaaaaaaaaaaaaaaaaaaaaaaaaaaaaaaaaaaaaaaaaaaaaaaaaa"
Local254 == "bbbbbbbbbbbbbbbbbbbbbbbbbbbbbbbbbbbbbbbbbbbbbbbbbbbbbbbbbbbbbbbbbbbbbbbbbbbbbbbbbbbbbbbbbbbbbbbbbbbbbbbbbbbbbbbbbbbbbbbbbbbbbbbbbbbbbbbbbbbbbbbbbbbbbbbbbbbbbbbbbbbbbbbbbbbbbbbbbbbbbbbbbbbbbbbbbbbbbbbbbbbbbbbbbbbbbbbbbbbbbbbbbbbbbbbbbbbbbbbbbbbbbbbbbbbbbb"

\* The domain-specs that ExpandDomainSpec is given on its own: empty,
\* short, of more than 253 octets in labels, and with the local-part
LongSpecs ==
    {<<>>, <<"%{d}">>, <<"mail", "%{d}">>,
     <<Label63, Label63, Label63, Label53, "%{d}">>,
     <<Label63, Label63, Label63, Label54, "%{d}">>,
     <<"a", "b", Label63, Label63, Label63, Label63, "example", "com">>,
     <<Label63, Label63, Label63, Label63, Label63, Label63, Label63, Label63, "com">>,
     <<"%{l}">>, <<"%{l}", "%{d}">>, <<"%{l}", "%{l}", "com">>, <<"%{c}", "test">>}

DomainSpecCalls ==
    {[fn |-> "ExpandDomainSpec", spec |-> spec, ip |-> ClientV4,
      mailFrom |-> Sender(local, TRUE, <<"d1", "test">>), helo |-> <<"mail", "test">>] :
        spec \in LongSpecs, local \in {"user", Local254}}

\* The replacements that are transformed: every string of up to MaxChars
\* of these characters, and some longer ones
ValueChars == {"a", "b", ".", "+", "@"}
MaxChars == 3
Replacements ==
    SeqsUpTo(ValueChars, MaxChars)
    \cup {<<"a", ".", "b", ".", "c">>, <<"a", "+", "b", ".", "c">>,
          <<"a", "-", "b", ".", "c", "@", "d">>, <<"a", ".", ".", "b", "=", "c">>,
          <<"1", ".", "2", ".", "3", ".", "4">>}

\* The transformers: no digits or 0 to 3, r or not, the delimiters
TransformCalls ==
    {[fn |-> "expandMacro", value |-> value, limit |-> limit, reverse |-> reverse,
      delims |-> delims] :
        value \in Replacements, limit \in {Absent, 0, 1, 2, 3}, reverse \in BOOLEAN,
        delims \in {{}, {"."}, {"-"}, {"+"}, {".", "+"}, {"=", "-", "."}}}

PureCalls ==
    MechanismCalls \cup MacroCalls \cup LookupCalls \cup PtrMacroCalls \cup EvaluateCalls
                   \cup AddressCalls \cup DomainSpecCalls \cup TransformCalls

\* The Result that a function is given: for the macro functions that of an
\* evaluation of the mailFrom domain which has got past line 167
PureInit ==
    /\ args \in PureCalls
    /\ pc = args.fn
    /\ result = IF args.fn \in {"NewMechanism", "expandMacro"} THEN ZeroResult
                ELSE IF args.fn = "lookupDNS"
                THEN [Started(NewResult(ClientV4, Sender("user", TRUE, <<"d1", "test">>),
                                        <<>>, 0))
                        EXCEPT !.VoidLookups = args.void]
                ELSE Started(NewResult(args.ip, args.mailFrom, args.helo, 0))
    /\ stack = <<>>
    /\ zone = [d \in Domains |-> Unasked]
    /\ calls = <<>>
    /\ out = Nil
    /\ peer = Nil
    /\ resolver = Nil
    /\ gor = Nil

\* m, err := NewMechanism(raw)
NewMechanismCall ==
    /\ pc = "NewMechanism"
    /\ out' = NewMechanism(args.raw)
    /\ pc' = "parsed"
    /\ UNCHANGED <<args, result, stack, zone, calls, peer, resolver, gor>>

\* again, err := NewMechanism(m.String()), for the m that was made
StringCall ==
    /\ pc = "parsed"
    /\ out.err = Nil
    /\ out' = [m |-> out.m, err |-> Nil, text |-> String(out.m),
               again |-> NewMechanism(String(out.m))]
    /\ pc' = "reparsed"
    /\ UNCHANGED <<args, result, stack, zone, calls, peer, resolver, gor>>

\* MacroIsValid(spec) and c.ExpandMacro(ctx, spec, result, domain, exp)
ExpandMacroCall ==
    /\ pc = "ExpandMacro"
    /\ out' = [valid |-> MacroIsValid(args.spec),
               x |-> ExpandMacro(args.spec, result, Fqdn(args.mailFrom.dom), args.exp, args.o)]
    /\ pc' = "expanded"
    /\ UNCHANGED <<args, result, stack, zone, calls, peer, resolver, gor>>

\* rrs, resultType, err := c.lookupDNS(ctx, hostname, qtype, &result)
LookupDNSCall ==
    /\ pc = "lookupDNS"
    /\ \E l \in {lookupDNS(args.m, args.qtype, result)} :
           /\ out' = [rrs |-> l.rrs, rt |-> l.rt, err |-> l.err]
           /\ result' = l.result
    /\ pc' = "looked"
    /\ UNCHANGED <<args, stack, zone, calls, peer, resolver, gor>>

\* resultType, err := m.Evaluate(ctx, &result, domain)
EvaluateCall ==
    /\ pc = "Evaluate"
    /\ \E ev \in {Evaluate(args.m, result, Fqdn(args.mailFrom.dom), args.o)} :
           /\ out' = [rt |-> ev.rt, err |-> ev.err]
           /\ result' = ev.result
    /\ pc' = "evaluated"
    /\ UNCHANGED <<args, stack, zone, calls, peer, resolver, gor>>

\* target, err := c.ExpandDomainSpec(ctx, spec, &result, domain, false)
ExpandDomainSpecCall ==
    /\ pc = "ExpandDomainSpec"
    /\ \E x \in {ExpandDomainSpec(args.spec, result, Fqdn(args.mailFrom.dom), FALSE,
                                   NoOracle)} :
           out' = [s |-> x.s, err |-> x.err]
    /\ pc' = "trimmed"
    /\ UNCHANGED <<args, result, stack, zone, calls, peer, resolver, gor>>

\* expandMacro lines 201-232 for a macro whose letter gave args.value,
\* with the letter in lower case and in upper case
TransformCall ==
    /\ pc = "expandMacro"
    /\ out' = [lower |-> Replaced(args.value, FALSE, args.limit, args.reverse, args.delims),
               upper |-> Replaced(args.value, TRUE, args.limit, args.reverse, args.delims)]
    /\ pc' = "replaced"
    /\ UNCHANGED <<args, result, stack, zone, calls, peer, resolver, gor>>

PureNext ==
    \/ NewMechanismCall
    \/ StringCall
    \/ ExpandMacroCall
    \/ LookupDNSCall
    \/ EvaluateCall
    \/ ExpandDomainSpecCall
    \/ TransformCall

PureSpec == PureInit /\ [][PureNext]_vars

(* ------------------------------------------------------------------ *)
(* Two calls of SPF on one Checker, each on its own goroutine.  A call  *)
(* keeps its evaluation in its own variables (SPF line 73: result is a  *)
(* local of the call, handed down by pointer); the Checker's fields are *)
(* only read.  The resolver is shared: its replies are fixed from the   *)
(* start and depend on the question alone.  Each call first runs alone, *)
(* and what it returns is kept; then both run, the scheduler passing    *)
(* from one to the other between any two steps.                         *)
(* ------------------------------------------------------------------ *)
\* Records whose terms ask the resolver only for what its zone fixes
ConcD1 ==
    {Record(<<Include(Pass, <<"d2", "test">>), MechIp4(Pass, Net4.IP, Net4.ones),
              Mech("all", Fail, <<>>)>>, <<>>, WhyName),
     Record(<<>>, <<"d2", "test">>, <<>>)}
ConcD3 == {Published(NoRecord), Reply("NXDOMAIN", <<>>)}
ConcZones ==
    {[d \in Domains |->
        CASE d = D1 -> Published(r1)
          [] d = D2 -> Published(Record(<<Mech("all", Fail, <<>>)>>, <<>>, WhyName))
          [] d = D3 -> r3
          [] OTHER -> Published(BlockRecord)] : r1 \in ConcD1, r3 \in ConcD3}

\* The variables of a call of SPF: before its first step, and now
Fresh(a) == [args |-> a, pc |-> "start", result |-> ZeroResult, stack |-> <<>>,
             calls |-> <<>>]
Running == [args |-> args, pc |-> pc, result |-> result, stack |-> stack,
            calls |-> calls]

\* The goroutine of the call e is the one that runs next
Load(e) ==
    /\ args' = e.args
    /\ pc' = e.pc
    /\ result' = e.result
    /\ stack' = e.stack
    /\ calls' = e.calls

\* What a call returned: the Result, and the checkHost calls it made
Returns == [result |-> result, calls |-> calls]

ConcInit ==
    \E a1 \in Calls, a2 \in Calls, z \in ConcZones :
        /\ args = a1
        /\ pc = "start"
        /\ result = ZeroResult
        /\ stack = <<>>
        /\ calls = <<>>
        /\ zone = z
        /\ out = Nil
        /\ resolver = Nil
        /\ gor = Nil
        /\ peer = [phase |-> "alone", id |-> 1, held |-> Fresh(a2),
                   alone |-> <<[result |-> ZeroResult, calls |-> <<>>],
                               [result |-> ZeroResult, calls |-> <<>>]>>]

\* A call that ran alone has returned: what it returned is kept, and the
\* other call runs alone; after both, the two calls start again, together
RanAlone ==
    /\ peer.phase = "alone"
    /\ pc = "done"
    /\ Load(peer.held)
    /\ peer' = [phase |-> IF peer.id = 1 THEN "alone" ELSE "both",
                id |-> 3 - peer.id,
                held |-> Fresh(args),
                alone |-> [peer.alone EXCEPT ![peer.id] = Returns]]
    /\ UNCHANGED <<zone, out, resolver, gor>>

\* A faulty variant of Switch: the two calls count their queries in one
\* counter
SwitchSharingCounters ==
    /\ peer.phase = "both"
    /\ Load([peer.held EXCEPT !.result.DNSQueries = result.DNSQueries])
    /\ peer' = [peer EXCEPT !.id = 3 - @, !.held = Running]
    /\ UNCHANGED <<zone, out, resolver, gor>>

\* The scheduler passes from the running call to the other one; each
\* call finds its own variables as it left them
Switch ==
    /\ peer.phase = "both"
    /\ Load(peer.held)
    /\ peer' = [peer EXCEPT !.id = 3 - @, !.held = Running]
    /\ UNCHANGED <<zone, out, resolver, gor>>

ConcNext ==
    \/ HeloCall
    \/ HeloReturn
    \/ MailCall
    \/ MailReturn
    \/ NoMail
    \/ EvalMechanism
    \/ IncludeCall
    \/ IncludeReturn
    \/ FellOff
    \/ RedirectCall
    \/ RedirectReturn
    \/ RanAlone
    \/ Switch

ConcSpec == ConcInit /\ [][ConcNext]_vars

(* ------------------------------------------------------------------ *)
(* Properties                                                           *)
(* ------------------------------------------------------------------ *)
Frames == {stack[k] : k \in 1..Len(stack)}
LastOf(s) == s[Len(s)]
AllNone(f) == \A j \in 1..Len(f.evald) : f.evald[j].rt = None

\* Lines 212-219 return permerror for frame f: its exp domain-spec does not
\* expand, or not to a valid name
ExpFails(f) ==
    LET x == ExpandDomainSpec(f.rec.Exp, result, f.domain, FALSE, NoOracle)
    IN  x.err # Nil \/ ~validDomainName(x.s)

C2_IncludeMapping ==
    \A f \in Frames : \A j \in 1..Len(f.evald) :
        LET e == f.evald[j]
            q == f.rec.Mechanisms[e.idx].Qualifier
        IN  e.sub # "-" =>
              /\ e.sub = Pass => e.rt = q
              /\ e.sub \in {Fail, Softfail, Neutral} => e.rt = None
              /\ e.sub = Temperror => e.rt = Temperror
              /\ e.sub \in {Permerror, None} => e.rt = Permerror

\* C2 witness: an include whose target has no SPF record (none) has
\* returned permerror
C2_Witness ==
    \E f \in Frames : \E j \in 1..Len(f.evald) :
        f.evald[j].sub = None /\ f.evald[j].rt = Permerror

\* C3.  Once an increment has put the DNS-query count over DNSLimit, every
\* invocation in progress returns permerror and so does SPF.
C3_BudgetPermerror ==
    result.DNSQueries > DNSLimit =>
        IF stack # <<>>
        THEN Top.st = "ret" /\ Top.ret = Permerror
        ELSE pc = "done" /\ result.Type = Permerror

\* C3 witness: eleven nested includes, ten in progress and the eleventh
\* returned permerror at its budget check
C3_Witness ==
    /\ Len(stack) = DNSLimit + 1
    /\ \A k \in 1..DNSLimit : stack[k].st = "call"
    /\ Top.st = "ret" /\ Top.ret = Permerror /\ ~Top.fetched
    /\ result.DNSQueries = DNSLimit + 1

\* Records that do nothing but recurse into d1.test or themselves
PureLoops ==
    {Published(r) : r \in {Record(<<Include(Pass, <<"%{d}">>)>>, <<>>, <<>>),
                           Record(<<Include(Pass, <<"d1", "test">>)>>, <<>>, <<>>),
                           Record(<<>>, <<"d1", "test">>, <<>>)}}

\* SPF has returned from an evaluation and every record is such a loop
CycleDone ==
    /\ pc = "done"
    /\ calls # <<>> /\ IsDomainName(LastOf(calls).domain)
    /\ \A d \in Domains : zone[d] \in PureLoops

\* C4.  Every call of SPF returns, also when the records include or
\* redirect to themselves or to each other; the nesting of checkHost
\* invocations never exceeds DNSLimit + 1; and an evaluation that met
\* nothing but such a cycle ends in permerror, through the budget alone.
C4_Terminates ==
    /\ <>(pc = "done")
    /\ [](Len(stack) <= DNSLimit + 1)
    /\ [](CycleDone => result.Type = Permerror /\ result.DNSQueries = DNSLimit + 1)

\* C4 witness: SPF has returned from a cycle of includes or redirects
C4_Witness == CycleDone /\ result.Type = Permerror

\* C5.  SPF calls checkHost for the HELO name first when helo is not
\* empty; it calls checkHost for the mailFrom domain only when mailFrom is
\* not empty and helo is empty or the HELO result was none or neutral;
\* otherwise it returns the HELO result without another resolver call.
C5_HeloFirst ==
    /\ (args.helo # <<>> /\ calls # <<>>) =>
           calls[1].id = "helo" /\ calls[1].domain = Fqdn(args.helo)
    /\ \A k \in 1..Len(calls) :
           calls[k].id = "mailfrom" =>
               /\ k = Len(calls)
               /\ args.mailFrom # EmptyString
               /\ calls[k].domain = Fqdn(args.mailFrom.dom)
               /\ \/ args.helo = <<>> /\ k = 1
                  \/ k = 2 /\ calls[1].id = "helo" /\ calls[1].rt \in {None, Neutral}
    /\ pc = "done" =>
           /\ args.helo # <<>> => calls # <<>>
           /\ (args.helo # <<>> /\ calls[1].rt \notin {None, Neutral}) =>
                  /\ Len(calls) = 1
                  /\ result.Type = calls[1].rt
                  /\ result.nq = calls[1].nq
           /\ (args.mailFrom # EmptyString
                 /\ (args.helo = <<>> \/ calls[1].rt \in {None, Neutral})) =>
                  /\ LastOf(calls).id = "mailfrom"
                  /\ result.Type = LastOf(calls).rt

\* C5 witness: SPF has returned the fail of the HELO name, with a mailFrom
\* that it did not evaluate
C5_Witness ==
    /\ pc = "done"
    /\ args.helo # <<>> /\ args.mailFrom # EmptyString
    /\ Len(calls) = 1 /\ calls[1].id = "helo" /\ calls[1].rt = Fail
    /\ result.Type = Fail

\* C6 as stated.  UsedHelo is true exactly when the result SPF returns was
\* produced by the evaluation of the HELO name (also when mailFrom is empty
\* and the HELO result is returned), and AuthenticationResults then gives
\* smtp.helo with the HELO name, else smtp.mailfrom with the sender.
C6_UsedHelo ==
    (pc = "done" /\ calls # <<>>) =>
        /\ result.UsedHelo <=> (LastOf(calls).id = "helo")
        /\ AuthenticationResults(result) =
              IF LastOf(calls).id = "helo"
              THEN <<Hostname, "spf=" \o result.Type, "smtp.helo", args.helo>>
              ELSE <<Hostname, "spf=" \o result.Type, "smtp.mailfrom",
                     SenderLabels(result.sender)>>

\* C7 as stated.  After an evaluation the void lookups are at most
\* VoidQueryLimit, or the result is permerror.
C7_VoidLimit ==
    pc = "done" => (result.VoidLookups <= VoidQueryLimit \/ result.Type = Permerror)

\* A step inside one top-level evaluation
InEvaluation == stack # <<>> /\ stack' # <<>>

\* C8.  Within one top-level evaluation the two counters never decrease:
\* an include or redirect invocation starts from its caller's values (and
\* adds its own record fetch), and the caller goes on from the values the
\* invocation ended with.
C8_CountersCarry ==
    [][InEvaluation =>
         /\ result'.DNSQueries >= result.DNSQueries
         /\ result'.VoidLookups >= result.VoidLookups
         /\ Len(stack') = Len(stack) + 1 =>
                /\ result'.DNSQueries = result.DNSQueries + 1
                /\ result'.VoidLookups = result.VoidLookups
         /\ Len(stack') = Len(stack) - 1 =>
                /\ result'.DNSQueries = result.DNSQueries
                /\ result'.VoidLookups = result.VoidLookups]_vars

\* C8 witness: an include has returned and its caller is at its next
\* mechanism, with a void lookup and the fetches of both records counted
C8_Witness ==
    \E f \in Frames :
        /\ f.st = "walk" /\ f.i = 3
        /\ f.evald[2].sub # "-"
        /\ result.VoidLookups >= 1
        /\ result.DNSQueries >= 3

\* The reply the TXT query for the domain of frame f got
ReplyFor(f) == IF f.domain \in Domains THEN zone[f.domain] ELSE Reply("NXDOMAIN", <<>>)

\* check_host for the domain of frame f as a top-level call would start it
Alone(f) ==
    CheckHostEntry(NewResult(args.ip, args.mailFrom, args.helo, 0),
                   f.domain, FALSE, FALSE, ReplyFor(f)).frame

\* Frame f, reached by redirect, returned what check_host gives for its
\* domain when that ends before the loop (frame e), permerror for none
AsCheckHostGives(f, e) ==
    e.st = "ret" => f.ret = IF e.ret = None THEN Permerror ELSE e.ret

\* C9 as stated.  The redirect is followed only when every mechanism
\* returned none; the result is then what check_host gives for the target,
\* permerror if that is none; a record that was walked to its end without
\* a match and has no redirect gives neutral.
C9_Redirect ==
    \A f \in Frames :
        /\ f.st = "tail" =>
               Len(f.evald) = Len(f.rec.Mechanisms) /\ AllNone(f)
        /\ (f.st = "ret" /\ f.redirect /\ f.fetched) => AsCheckHostGives(f, Alone(f))
        /\ (/\ f.st = "ret" /\ f.fetched /\ Alone(f).st = "walk"
            /\ Len(f.evald) = Len(f.rec.Mechanisms) /\ AllNone(f)
            /\ f.rec.Redirect = <<>> /\ result.DNSQueries <= DNSLimit) =>
               f.ret = Neutral

\* C10 as stated.  An explanation is stored only by a record that is not
\* evaluated inside an include, so that a result with an explanation is
\* fail.
C10_ExplanationOnlyOnFail ==
    /\ (stack # <<>> /\ result.Explanation # <<>>) =>
           \A f \in Frames : ~f.include
    /\ (pc = "done" /\ result.Explanation # <<>>) => result.Type = Fail

\* C11.  Once the terminal result of a record is fail, no failure while
\* the explanation is obtained changes it: an invocation (not one made by
\* an include) whose walk ended on fail within the DNS-query budget returns
\* fail.
C11_ExplanationKeepsFail ==
    \A f \in Frames :
        (/\ f.st = "ret" /\ ~f.include
         /\ Len(f.evald) > 0 /\ LastOf(f.evald).rt = Fail
         /\ result.DNSQueries <= DNSLimit) => f.ret = Fail

\* The version section of a text is "v=spf1", whatever the case of its
\* letters, and a space or the end of the text follows it
VersionIsSpf1(text) == text.version \in {"v=spf1", "V=SPF1"}

\* The TXT records of the reply that invocation f got whose version section
\* is v=spf1 in any letter case, and those where it is v=spf1 in these
\* very letters
KeptAnyCase(f) ==
    SelectSeq(ReplyFor(f).answer, LAMBDA rr : rr.rrtype = "TXT" /\ VersionIsSpf1(rr.data))
KeptThisCase(f) ==
    SelectSeq(ReplyFor(f).answer, LAMBDA rr : rr.rrtype = "TXT" /\ rr.data.version = "v=spf1")

\* The reply that f got was not an error: the fetcher selects among its
\* records
Selects(f) ==
    /\ f.fetched
    /\ ~ReplyFor(f).err
    /\ ReplyFor(f).rcode \in {"NOERROR", "NXDOMAIN"}

\* What invocation f does when the fetcher kept the records kept: with none
\* it returns none (permerror for a redirect target), with two or more
\* permerror, and with one it goes on with that record
SelectedFrom(f, kept) ==
    CASE Len(kept) = 0 ->
           /\ f.st = "ret" /\ f.evald = <<>>
           /\ f.ret = IF f.redirect THEN Permerror ELSE None
      [] Len(kept) = 1 ->
           IF kept[1].data.bad # ""
           THEN f.st = "ret" /\ f.ret = Permerror /\ f.evald = <<>>
           ELSE IF ParseSPF(kept[1].data).err # Nil
           THEN f.st = "ret" /\ f.ret = Permerror /\ f.evald = <<>>
           ELSE f.rec = ParseSPF(kept[1].data).rec
      [] OTHER -> f.st = "ret" /\ f.evald = <<>> /\ f.ret = Permerror

AllTexts == {Raw(qual, "all", FALSE, "", <<>>, Absent, Absent) : qual \in {"", "+", "-", "~", "?"}}

\* The result that the spec gives for a qualifier character
ResultOfQualifier(qual) ==
    CASE qual = "-" -> Fail
      [] qual = "?" -> Neutral
      [] qual = "~" -> Softfail
      [] OTHER -> Pass

\* C13.  A record whose only mechanism is "all" yields exactly the result
\* of its qualifier: -all gives fail, ?all neutral, ~all softfail, +all
\* and all pass.
C13_AllYieldsQualifier ==
    \A f \in Frames : \A raw \in AllTexts :
        (f.st = "ret" /\ f.rec.Mechanisms = <<NewMechanism(raw).m>>)
            => f.ret = ResultOfQualifier(raw.qual)

\* The mechanism at index j of invocation f matched: it returned its
\* qualifier
MatchedAt(f, j) == f.evald[j].rt = f.rec.Mechanisms[j].Qualifier

SameMechanism(a, b) ==
    /\ a.kind = b.kind
    /\ a.Qualifier = b.Qualifier
    /\ a.DomainSpec = b.DomainSpec
    /\ a.Mask4 = b.Mask4
    /\ a.Mask6 = b.Mask6
    /\ a.kind \in {"ip4", "ip6"} => NetString(a.Net) = NetString(b.Net)

\* C15.  For every mechanism m that NewMechanism produces,
\* NewMechanism(m.String()) succeeds and yields a mechanism equal to m.
C15_RoundTrip ==
    pc = "reparsed" => (out.again.err = Nil /\ SameMechanism(out.again.m, out.m))

\* The eleven macro letters of the spec, in either case
ClaimedLetters ==
    {"s", "l", "o", "d", "i", "p", "v", "h", "c", "r", "t",
     "S", "L", "O", "D", "I", "P", "V", "H", "C", "R", "T"}

\* C16.  Each of the eleven macro letters, in either case, is accepted in
\* %{...} by both the macro validator and the expander (here for
\* explanation text, where all of them are allowed); in particular %{s}
\* expands to the full sender.
C16_ElevenLetters ==
    \A letter \in ClaimedLetters :
        (pc = "expanded" /\ args.exp /\ args.spec = <<Braced(letter)>>) =>
            /\ out.valid
            /\ out.x.err = Nil
            /\ letter = "s" => out.x.s = SenderLabels(result.sender)

\* The pieces on which the spec has macro expansion fail: a trailing %, a
\* character after % other than %, _, - or {, a malformed %{...}, and the
\* letters c, r, t when the expansion is not for explanation text
ClaimedFailure(piece, exp) ==
    \/ piece \in {"%", "%x", "%{z}", "%{d"}
    \/ ~exp /\ piece \in {Braced(letter) : letter \in {"c", "r", "t", "C", "R", "T"}}

FailsToExpand(spec, exp) == \E k \in 1..Len(spec) : ClaimedFailure(spec[k], exp)

\* C17.  Macro expansion fails with an error on a trailing %, on any
\* character after % other than %, _, - or {, on a malformed %{...}, and
\* on the letters c, r or t when the expansion is not for explanation
\* text (first conjunct, for the Result of the call).  When this happens
\* while a mechanism's domain-spec is expanded, the mechanism returns
\* permerror before any lookup and so does the invocation (second
\* conjunct); when it happens for the redirect modifier the invocation
\* returns permerror (third conjunct).
C17_ExpansionErrors ==
    /\ pc = "start" =>
           \A spec \in MacroSpecs : \A exp \in BOOLEAN :
               FailsToExpand(spec, exp) =>
                   ExpandMacro(spec, Started(NewResult(args.ip, args.mailFrom, args.helo, 0)),
                               D1, exp, NoOracle).err # Nil
    /\ \A f \in Frames : \A j \in 1..Len(f.evald) :
           FailsToExpand(f.rec.Mechanisms[j].DomainSpec, FALSE) =>
               /\ f.evald[j].rt = Permerror
               /\ ~f.evald[j].asked
               /\ f.st = "ret" /\ f.ret = Permerror
    /\ \A f \in Frames :
           (/\ f.st = "ret"
            /\ Len(f.evald) = Len(f.rec.Mechanisms) /\ AllNone(f)
            /\ FailsToExpand(f.rec.Redirect, FALSE)) => f.ret = Permerror

\* C17 witness: the evaluation has returned permerror because the
\* domain-spec of its mx mechanism, %x.test, did not expand
C17_Witness ==
    /\ pc = "done"
    /\ result.Type = Permerror
    /\ zone[D1] = Published(Record(<<Mech("mx", Pass, <<"%x", "test">>)>>, <<>>, <<>>))

\* The sender that SPF was given has no local-part: no "@", or "@" first
NoLocalPart(sender) == ~sender.at \/ sender.local = ""

\* Some invocation of checkHostCore is past line 156 and has not
\* returned: macros are expanded in such states only
Expanding == \E f \in Frames : f.st # "ret"

\* C19.  If the sender has no local-part, every macro expansion of the
\* evaluation sees a sender whose local-part is "postmaster" and whose
\* domain part is unchanged; a sender that has a local-part is never
\* altered.  (%{l} and %{o} are what an expansion sees of the sender.)
C19_Postmaster ==
    Expanding =>
        /\ result.sender.dom = args.mailFrom.dom
        /\ result.sender.local = IF NoLocalPart(args.mailFrom) THEN "postmaster"
                                 ELSE args.mailFrom.local
        /\ ~NoLocalPart(args.mailFrom) => result.sender = args.mailFrom
        /\ ExpandMacro(<<"%{l}">>, result, Top.domain, FALSE, NoOracle).s
               = <<IF NoLocalPart(args.mailFrom) THEN "postmaster" ELSE args.mailFrom.local>>
        /\ ExpandMacro(<<"%{o}">>, result, Top.domain, FALSE, NoOracle).s
               = TrimDot(args.mailFrom.dom)

\* C19 witness: the sender is "@d2.test"; an invocation is under way and
\* its result holds the sender postmaster@d2.test
C19_Witness ==
    /\ Expanding
    /\ args.mailFrom = Sender("", TRUE, <<"d2", "test">>)
    /\ result.sender = Sender("postmaster", TRUE, <<"d2", "test">>)
    /\ Len(Top.evald) > 0

\* The checkHost for example.com has returned
BlockReturned(f) == f.st = "ret" /\ f.domain = ExampleCom

\* C20.  With the record "v=spf1 exists:%{i}.block.example -all" at
\* example.com and an A record for 1.2.3.4.block.example, a check with
\* ip=1.2.3.4 matches the exists term, which has no qualifier and so
\* yields pass; a check with ip=5.6.7.8 falls through to -all and yields
\* fail.
C20_BlockList ==
    /\ \A f \in Frames :
           BlockReturned(f) =>
               /\ args.ip = Listed =>
                      /\ Len(f.evald) = 1
                      /\ f.evald[1].rt = Pass /\ f.evald[1].asked
                      /\ f.ret = Pass
               /\ args.ip = Unlisted =>
                      /\ Len(f.evald) = 2
                      /\ f.evald[1].rt = None /\ f.evald[1].asked
                      /\ f.evald[2].rt = Fail
                      /\ f.ret = Fail
    /\ (pc = "done" /\ args.ip = Listed) => result.Type = Pass
    /\ (pc = "done" /\ args.ip = Unlisted) => result.Type = Fail

\* C20 witness: the check with ip=1.2.3.4 has matched the exists term
C20_Witness ==
    \E f \in Frames :
        /\ BlockReturned(f)
        /\ args.ip = Listed
        /\ f.rec.Mechanisms[1].kind = "exists"
        /\ f.evald[1].asked
        /\ f.ret = Pass

\* C20 as stated: both checks yield fail
C20_AsStated ==
    (pc = "done" /\ args.ip \in {Listed, Unlisted}) => result.Type = Fail

FieldsNamed(fields, name) ==
    {k \in 1..Len(fields) : fields[k].name # "" /\ ToLower(fields[k].name) = name}

\* redirect= or exp= is in the fields more than once
Repeats(fields) ==
    \/ Cardinality(FieldsNamed(fields, "redirect")) > 1
    \/ Cardinality(FieldsNamed(fields, "exp")) > 1

\* The target that the parsed record holds for the modifier name is the
\* value of its only field, or none if there is no such field
OnlyTarget(fields, name, target) ==
    /\ Cardinality(FieldsNamed(fields, name)) <= 1
    /\ \A k \in FieldsNamed(fields, name) : target = fields[k].value
    /\ FieldsNamed(fields, name) = {} => target = <<>>

\* What ParseSPF returned (p) is right for the fields
ParsedRight(fields, p) ==
    /\ Repeats(fields) => p.err # Nil
    /\ p.err = Nil => /\ OnlyTarget(fields, "redirect", p.rec.Redirect)
                      /\ OnlyTarget(fields, "exp", p.rec.Exp)

\* The one SPF record of the reply that invocation f got says redirect= or
\* exp= more than once
FetchedRepeats(f) ==
    /\ Selects(f)
    /\ Len(KeptAnyCase(f)) = 1
    /\ Repeats(KeptAnyCase(f)[1].data.fields)

\* C21.  A successfully parsed record holds at most one redirect target
\* and at most one exp target; a record text in which redirect= or exp=
\* appears more than once is rejected by the parser, and check_host on it
\* yields permerror.
C21_ModifiersOnce ==
    /\ pc = "start" => \A fields \in FieldSeqs : ParsedRight(fields, ParseFields(fields))
    /\ \A f \in Frames :
           FetchedRepeats(f) => f.st = "ret" /\ f.ret = Permerror /\ f.evald = <<>>

\* C21 witness: the record "v=spf1 -all redirect=d2.test Redirect=d3.test"
\* was fetched and checkHost returned permerror without evaluating -all
C21_Witness ==
    \E f \in Frames :
        /\ FetchedRepeats(f)
        /\ Len(KeptAnyCase(f)[1].data.fields) = 3
        /\ KeptAnyCase(f)[1].data.fields[1].name = ""
        /\ f.ret = Permerror
        /\ result.Error = "multiple redirect modifiers"

\* C22 (as amended).  In every reachable state of an evaluation, across
\* include and redirect recursion, dns_queries is at most DNSLimit + 1,
\* and it is over DNSLimit only after the increment on which the
\* invocation in progress returns permerror.
C22_CountBounded ==
    /\ result.DNSQueries <= DNSLimit + 1
    /\ (result.DNSQueries > DNSLimit /\ stack # <<>>) => Top.st = "ret" /\ Top.ret = Permerror

\* C22 witness: an "a" term was the eleventh to count; its address query
\* was made, and the invocation returned permerror after it
C22_Witness ==
    /\ stack # <<>>
    /\ Top.st = "ret" /\ Top.ret = Permerror
    /\ Len(Top.evald) > 0
    /\ Top.rec.Mechanisms[LastOf(Top.evald).idx].kind = "a"
    /\ LastOf(Top.evald).asked
    /\ result.DNSQueries = DNSLimit + 1

\* C22 as stated: dns_queries is never over DNSLimit
C22_AsStated == result.DNSQueries <= DNSLimit

\* The loop of checkHostCore is about to evaluate a mechanism: the next
\* step of the evaluation is that mechanism's Evaluate
AtMechanism == Walking /\ Top.i <= Len(Top.rec.Mechanisms)

\* C23 as stated.  Each mechanism that issues DNS queries (include, a, mx,
\* ptr, exists) adds exactly one to dns_queries when its evaluation begins,
\* whatever the number of its lookups; all, ip4 and ip6 leave dns_queries
\* unchanged.
C23_CountsOnce ==
    [][AtMechanism =>
         result'.DNSQueries = result.DNSQueries
                                 + IF Mechanism.kind \in {"all", "ip4", "ip6"} THEN 0 ELSE 1]_vars

\* The TXT query of frame f failed in transport, or was answered with an
\* RCODE other than success and name error
FetchFailed(f) ==
    /\ f.fetched
    /\ ReplyFor(f).err \/ ReplyFor(f).rcode \notin {"NOERROR", "NXDOMAIN"}

\* C24 as stated.  check_host returns temperror whenever the TXT query for
\* the SPF record fails in transport or is answered with an RCODE other
\* than success and name error: at top level, inside an include, and for
\* the target of a redirect.
C24_FetchTemperror ==
    \A f \in Frames : FetchFailed(f) => f.st = "ret" /\ f.ret = Temperror

\* lookupDNS has returned
LookedUp == pc = "looked"

\* The records of an answer that have the queried type, in their order
OfType(answer, qtype) == SelectSeq(answer, LAMBDA rr : rr.rrtype = qtype)

\* C25.  lookupDNS puts every resolver outcome in exactly one case.  A
\* transport error gives no records, temperror and an error, void_lookups
\* unchanged.  A name error, or success with an empty answer, adds one to
\* void_lookups and gives no records with permerror and an error if the
\* count is now above VoidQueryLimit, with none and no error otherwise.
\* Any other failing RCODE gives no records, temperror and no error,
\* void_lookups unchanged.  Success with an answer gives the records of
\* the queried type only, none and no error, void_lookups unchanged.
C25_Classified ==
    LookedUp =>
        LET m == args.m
            void == result.VoidLookups
            transport == m.err
            empty == ~m.err /\ (m.rcode = "NXDOMAIN"
                                  \/ (m.rcode = "NOERROR" /\ Len(m.answer) = 0))
            failing == ~m.err /\ m.rcode \notin {"NOERROR", "NXDOMAIN"}
            answered == ~m.err /\ m.rcode = "NOERROR" /\ Len(m.answer) > 0
        IN  /\ Cardinality({c \in {"t", "e", "f", "a"} :
                               \/ c = "t" /\ transport
                               \/ c = "e" /\ empty
                               \/ c = "f" /\ failing
                               \/ c = "a" /\ answered}) = 1
            /\ transport =>
                   out = [rrs |-> <<>>, rt |-> Temperror, err |-> "transport"]
                   /\ void = args.void
            /\ empty =>
                   /\ void = args.void + 1
                   /\ out.rrs = <<>>
                   /\ IF void > VoidQueryLimit
                      THEN out.rt = Permerror /\ out.err # Nil
                      ELSE out.rt = None /\ out.err = Nil
            /\ failing =>
                   out = [rrs |-> <<>>, rt |-> Temperror, err |-> Nil]
                   /\ void = args.void
            /\ answered =>
                   out = [rrs |-> OfType(m.answer, args.qtype), rt |-> None, err |-> Nil]
                   /\ void = args.void

\* lookupDNS was given an answer with records of several types, asked for
\* one of them
C25_Witness ==
    /\ LookedUp
    /\ args.m.rcode = "NOERROR"
    /\ Len(out.rrs) = 2
    /\ Len(args.m.answer) = 3
    /\ args.void = VoidQueryLimit
    /\ result.VoidLookups = VoidQueryLimit

\* The evaluators that take a domain-spec
NamedKinds == {"include", "a", "mx", "exists", "ptr"}

\* The loop is at a mechanism with a domain-spec; its expansion does not
\* depend on the resolver (no %{p})
AtNamed ==
    AtMechanism /\ Mechanism.kind \in NamedKinds /\ ~UsesP(Mechanism.DomainSpec)

\* What the mechanism at the loop's position has as its target
Expansion == ExpandDomainSpec(Mechanism.DomainSpec, result, Top.domain, FALSE, NoOracle)

\* C26 as stated.  For include, a, mx, exists and ptr: when the expansion
\* of the domain-spec fails the mechanism yields permerror; when the
\* expanded name is not a valid hostname the mechanism yields none, with an
\* error, and the walk goes on with the next mechanism.
C26_InvalidTarget ==
    [][AtNamed =>
         LET g == stack'[Len(stack)]
         IN  /\ Expansion.err # Nil =>
                    /\ LastOf(g.evald).rt = Permerror
                    /\ g.st = "ret" /\ g.ret = Permerror
             /\ (Expansion.err = Nil /\ ~validDomainName(Expansion.s)) =>
                    /\ LastOf(g.evald).rt = None
                    /\ g.st = "walk" /\ g.i = Top.i + 1
                    /\ Mechanism.kind # "include" =>
                           \A o \in OraclesFor(Mechanism, Expansion) :
                               Evaluate(Mechanism, result, Top.domain, o).err # Nil]_vars

\* The loop is at a ptr mechanism whose target is a valid name, so that
\* its Evaluate makes the PTR query
AtPtr ==
    /\ AtNamed
    /\ Mechanism.kind = "ptr"
    /\ Expansion.err = Nil
    /\ validDomainName(Fqdn(Expansion.s))

\* C27 as stated.  When the PTR query fails in transport the ptr mechanism
\* yields none, so that the walk goes on with the next mechanism, and the
\* %{p} macro expands to "unknown".
C27_PtrTransportError ==
    AtPtr =>
        \A o \in OraclesFor(Mechanism, Expansion) :
            o.ptr.err =>
                /\ Evaluate(Mechanism, result, Top.domain, o).rt = None
                /\ expandPtrMacro(result, Top.domain, o).value = <<"unknown">>

\* The smaller of two numbers
Min(a, b) == IF a < b THEN a ELSE b

\* The hostnames of the first PtrAddressLimit PTR records of the reply to
\* the PTR query, none when the query did not succeed
FirstNames(pr) ==
    IF pr.err \/ pr.rcode # "NOERROR" THEN <<>>
    ELSE [k \in 1..Min(Len(OfType(pr.answer, "PTR")), PtrAddressLimit) |->
            OfType(pr.answer, "PTR")[k].data]

\* The forward lookup of a hostname, in the address family of ip, returns ip
ForwardGives(fr, ip) ==
    /\ ~fr.err
    /\ fr.rcode = "NOERROR"
    /\ \E j \in 1..Len(fr.answer) :
           fr.answer[j].rrtype = QType(ip) /\ fr.answer[j].data = ip

\* Some hostname among the first PtrAddressLimit is validated and is the
\* target or below it
SomeValidated(o, target, ip) ==
    \E k \in 1..Len(FirstNames(o.ptr)) :
        /\ ForwardGives(o.fwd[FirstNames(o.ptr)[k]], ip)
        /\ IsSubDomain(target, FirstNames(o.ptr)[k])

PtrEvaluated == pc = "evaluated" /\ args.m.kind = "ptr"
PtrExpanded == pc = "expanded" /\ UsesP(args.spec)

\* The resolver calls that the PTR probe made after its PTR query: the
\* forward lookups
Forwards(r) == IF r.nq > 0 THEN r.nq - 1 ELSE 0

\* The PTR query was answered with more than PtrAddressLimit PTR records
LongPtrAnswer(pr) ==
    ~pr.err /\ pr.rcode = "NOERROR" /\ Len(OfType(pr.answer, "PTR")) > PtrAddressLimit

\* C29.  One evaluation of the ptr mechanism, and one expansion of %{p},
\* makes forward address lookups for at most PtrAddressLimit hostnames;
\* the PTR records after the first PtrAddressLimit are ignored and no
\* error comes of them.
C29_PtrLimit ==
    /\ PtrEvaluated =>
           /\ Forwards(result) <= PtrAddressLimit
           /\ LongPtrAnswer(args.o.ptr) =>
                  out.err = Nil /\ out.rt \in {None, args.m.Qualifier}
    /\ PtrExpanded =>
           /\ Forwards(out.x.result) <= PtrAddressLimit
           /\ LongPtrAnswer(args.o.ptr) => out.x.err = Nil

\* The ptr mechanism was given more than PtrAddressLimit PTR records, made
\* PtrAddressLimit forward lookups and did not match
C29_Witness ==
    /\ PtrEvaluated
    /\ LongPtrAnswer(args.o.ptr)
    /\ Forwards(result) = PtrAddressLimit
    /\ out.rt = None

\* The mx mechanism has been evaluated on its own, and its MX query was
\* answered with records
MxEvaluated ==
    /\ pc = "evaluated"
    /\ args.m.kind = "mx"
    /\ ~args.o.mx.err
    /\ args.o.mx.rcode = "NOERROR"
    /\ Len(OfType(args.o.mx.answer, "MX")) > 0

\* The number of MX records in the answer; the address lookups made
MxCount == Len(OfType(args.o.mx.answer, "MX"))
MxLookups == result.nq - 1

\* The address lookup of the k-th MX target returns an address whose
\* masked network contains the client's address
MxHit(k) ==
    LET fr == args.o.mxaddr[k]
    IN  /\ ~fr.err
        /\ fr.rcode = "NOERROR"
        /\ \E j \in 1..Len(fr.answer) :
               /\ fr.answer[j].rrtype = QType(args.ip)
               /\ Contains(fr.answer[j].data,
                           IF To4(args.ip) THEN args.m.Mask4 ELSE args.m.Mask6, args.ip)

\* The address lookup of the k-th MX target is a void lookup
MxVoid(k) ==
    LET fr == args.o.mxaddr[k]
    IN  ~fr.err /\ (fr.rcode = "NXDOMAIN" \/ (fr.rcode = "NOERROR" /\ Len(fr.answer) = 0))

\* The address lookup of the k-th MX target fails: in transport, with a
\* failing RCODE, or as the void lookup that exceeds VoidQueryLimit
MxFails(k) ==
    LET fr == args.o.mxaddr[k]
    IN  \/ fr.err
        \/ fr.rcode \notin {"NOERROR", "NXDOMAIN"}
        \/ MxVoid(k) /\ Cardinality({j \in 1..k : MxVoid(j)}) > VoidQueryLimit

\* The k-th MX target is reached by the walk: no earlier one matched or
\* failed
MxReached(k) == \A j \in 1..(k - 1) : ~MxHit(j) /\ ~MxFails(j)

AEvaluated == pc = "evaluated" /\ args.m.kind = "a"

\* The records of the answer that the query of the client's family
\* returns: A for an IPv4 client, AAAA for an IPv6 client
Returned4or6(ar, ip) ==
    IF ar.err \/ ar.rcode # "NOERROR" THEN <<>>
    ELSE OfType(ar.answer, IF Len(ip) = 4 THEN "A" ELSE "AAAA")

\* The network that address a defines under a mask of ones bits contains
\* ip: they agree on the pieces the mask covers (8 bits a piece for IPv4,
\* 16 for IPv6)
InNetwork(a, ones, ip) ==
    /\ Len(a) = Len(ip)
    /\ \A k \in 1..Len(ip) : (k * (IF Len(ip) = 4 THEN 8 ELSE 16) <= ones) => a[k] = ip[k]

\* C31.  The a mechanism makes one query, for A when the client is IPv4
\* and for AAAA when it is IPv6, and yields its qualifier exactly when one
\* of the addresses returned, masked with the v4 mask for an A record and
\* the v6 mask for an AAAA record, is a network that contains the client.
C31_AddressMatch ==
    AEvaluated =>
        /\ result.nq = 1
        /\ out.rt = args.m.Qualifier <=>
               \E j \in 1..Len(Returned4or6(args.o.addr, args.ip)) :
                   LET rr == Returned4or6(args.o.addr, args.ip)[j]
                   IN  InNetwork(rr.data,
                                 IF rr.rrtype = "A" THEN args.m.Mask4 ELSE args.m.Mask6,
                                 args.ip)

\* An IPv6 client matched a/24//64 on the AAAA record of an answer that
\* also holds an A record
C31_Witness ==
    /\ AEvaluated
    /\ args.ip = ClientV6
    /\ args.m.Mask6 = 64
    /\ Len(args.o.addr.answer) = 2
    /\ out.rt = args.m.Qualifier

\* ExpandDomainSpec has returned
DomainSpecExpanded == pc = "trimmed"

\* What the macro expansion of the domain-spec gives
Expanded == ExpandMacro(args.spec, result, Fqdn(args.mailFrom.dom), FALSE, NoOracle)

\* The suffixes of a name that start at a label boundary, the name itself
\* left out, and are at most 253 octets: each given by its first label
ShortSuffixes(labels) ==
    {k \in 2..Len(labels) : TextLen(SubSeq(labels, k, Len(labels))) <= 253}

\* C32 as stated.  ExpandDomainSpec returns the current domain for an
\* empty domain-spec.  Otherwise it returns the macro expansion when that
\* is at most 253 octets, and else the longest suffix of it that starts at
\* a label boundary and is at most 253 octets; it fails with an error
\* exactly when no such suffix is left.
C32_Trimming ==
    DomainSpecExpanded =>
        IF args.spec = <<>>
        THEN out = [s |-> Fqdn(args.mailFrom.dom), err |-> Nil]
        ELSE IF Expanded.err # Nil
        THEN out.err # Nil
        ELSE IF TextLen(Expanded.s) <= 253
        THEN out = [s |-> Expanded.s, err |-> Nil]
        ELSE IF ShortSuffixes(Expanded.s) = {}
        THEN out.err # Nil
        ELSE LET first == CHOOSE k \in ShortSuffixes(Expanded.s) :
                              \A j \in ShortSuffixes(Expanded.s) : k <= j
             IN  out = [s |-> SubSeq(Expanded.s, first, Len(Expanded.s)), err |-> Nil]

\* A macro has been replaced, in both letter cases
MacroReplaced == pc = "replaced"

\* C33 as stated.  The upper-case form of a macro expands to the URL
\* escape of what the lower-case form with the same transformers expands
\* to: the escape is applied last, after split, reverse and limit.
C33_EscapeLast == MacroReplaced => out.upper = rfc3986Escape(out.lower)

\* The positions of a value that hold a delimiter, and the k-th of them
Cuts(value, delims) == {i \in 1..Len(value) : value[i] \in delims}
CutAt(value, delims, k) ==
    CHOOSE i \in Cuts(value, delims) :
        Cardinality({j \in Cuts(value, delims) : j < i}) = k - 1

\* The parts of a value between its delimiters, in order
PartsOf(value, delims) ==
    [k \in 1..(Cardinality(Cuts(value, delims)) + 1) |->
        SubSeq(value,
               IF k = 1 THEN 1 ELSE CutAt(value, delims, k - 1) + 1,
               IF k = Cardinality(Cuts(value, delims)) + 1 THEN Len(value)
               ELSE CutAt(value, delims, k) - 1)]

\* The rightmost n of the parts when there are more than n
Rightmost(parts, n) ==
    IF n < Len(parts) THEN [k \in 1..n |-> parts[Len(parts) - n + k]] ELSE parts

\* C34.  For a macro in lower case: the value is split on every character
\* of the delimiter set ("." when none is given), the parts are reversed
\* if r is there, only the rightmost N parts are kept if digits N are
\* there and N is less than the number of parts, and the parts are joined
\* with "."; without digits, r and delimiters the value is inserted as it
\* is.  (For the upper-case form see C33.)
C34_Transformers ==
    MacroReplaced =>
        out.lower =
            IF args.limit = Absent /\ ~args.reverse /\ args.delims = {}
            THEN args.value
            ELSE LET parts == PartsOf(args.value,
                                      IF args.delims = {} THEN {"."} ELSE args.delims)
                     ordered == IF args.reverse
                                THEN [k \in 1..Len(parts) |-> parts[Len(parts) + 1 - k]]
                                ELSE parts
                 IN  Joined(IF args.limit = Absent THEN ordered
                            ELSE Rightmost(ordered, args.limit))

\* %{l2r+.} on "a+b.c" has given "b.a"
C34_Witness ==
    /\ MacroReplaced
    /\ args.value = <<"a", "+", "b", ".", "c">>
    /\ args.limit = 2 /\ args.reverse /\ args.delims = {".", "+"}
    /\ out.lower = <<"b", ".", "a">>

(* ------------------------------------------------------------------ *)
(* checkHost lines 121-127: the RecordResult hook                       *)
(* ------------------------------------------------------------------ *)
\* checkHost line 123: the invocation on top of the frames has returned
\* from checkHostCore and hands result to the hook; nothing touches result
\* between line 122 and line 124
AtRecordResult == stack # <<>> /\ Top.st = "ret"

\* C35: whenever an invocation of checkHost calls RecordResult, the Type of
\* the Result it passes equals the value the invocation returns. The code
\* sets result.Type only at line 201, to what the last mechanism returned,
\* so an invocation that ends otherwise passes a stale Type.
C35_HookSeesReturn == AtRecordResult => result.Type = Top.ret

(* ------------------------------------------------------------------ *)
(* MechanismInclude.Evaluate lines 79-102, checkHostCore line 200: the  *)
(* frame of an include                                                  *)
(* ------------------------------------------------------------------ *)
\* The steps of one evaluation: a checkHost invocation is running before
\* and after
Within == stack # <<>> /\ stack' # <<>>

\* The invocations that are running before and after a step
Kept == 1..Min(Len(stack), Len(stack'))

\* C36: entering an include, running it and returning from it leave the
\* client ip and the sender of the Result as they were, and every running
\* invocation keeps the <domain> it was entered with; the outermost one is
\* the domain Checker.SPF passed.
C36_IncludeFrame ==
    [][Within =>
         /\ result'.ip = result.ip
         /\ result'.sender = result.sender
         /\ \A k \in Kept : stack'[k].domain = stack[k].domain
         /\ stack'[1].domain = calls'[Len(calls')].domain]_vars

\* An include that did not match (the included record gave fail, softfail
\* or neutral) has returned and the parent has gone on to evaluate an "a"
\* term with the default target under its own <domain>
C36_Witness ==
    /\ Len(stack) = 1
    /\ Len(Top.evald) = 2
    /\ Top.rec.Mechanisms[1].kind = "include"
    /\ Top.evald[1].sub \in {Fail, Softfail, Neutral}
    /\ Top.evald[1].rt = None
    /\ Top.rec.Mechanisms[2].kind = "a"
    /\ Top.rec.Mechanisms[2].DomainSpec = <<>>
    /\ Top.domain = calls[Len(calls)].domain
    /\ Top.domain # <<"d2", "test", "">>

(* ------------------------------------------------------------------ *)
(* checkHostCore lines 167-171 and 205-208: the budget of DNSLimit      *)
(* ------------------------------------------------------------------ *)
\* The terms whose Evaluate begins with result.DNSQueries++
\* (mechanism.go lines 131, 198, 328)
CountedKinds == {"a", "mx", "exists"}

\* The evaluated terms of frame f that counted
CountedTerms(f) ==
    {j \in 1..Len(f.evald) : f.rec.Mechanisms[f.evald[j].idx].kind \in CountedKinds}

\* Frame f is an invocation that made its record fetch and did not recurse:
\* no include was evaluated and no redirect was followed
Flat(f) ==
    /\ f.fetched
    /\ f.st \in {"walk", "ret"}
    /\ \A j \in 1..Len(f.evald) : f.rec.Mechanisms[f.evald[j].idx].kind # "include"
    /\ (f.st = "ret" /\ f.rec.Redirect # <<>>) => Len(f.evald) > 0 /\ LastOf(f.evald).rt # None

\* Every "a" term of the top-level record f was evaluated and none matched
\* or failed
NoneMatched(f, n) ==
    /\ f.rec = ManyA(n)
    /\ f.st = "ret"
    /\ Len(f.evald) >= n
    /\ \A j \in 1..n : f.evald[j].rt = None

C37_WitnessBelow ==
    /\ Len(stack) = 1
    /\ NoneMatched(Top, DNSLimit - 1)
    /\ Top.ret = Fail

(* ------------------------------------------------------------------ *)
(* checkHostCore lines 138-179: the Record hook                         *)
(* ------------------------------------------------------------------ *)
\* The reply the resolver gave to the TXT query of invocation f
AnswerTo(f) == IF f.domain \in Domains THEN zone[f.domain] ELSE Reply("NXDOMAIN", <<>>)

\* Lines 177-179: invocation f has called the Record hook, once.  It got
\* past the returns of lines 140, 145 and 170 (the query was made) and
\* past the return of line 175 (getSPFRecord gave no error)
RecordCalled(f) == f.fetched /\ getSPFRecord(AnswerTo(f), ZeroResult).err = Nil

\* C38: an invocation of checkHost that calls RecordResult has called
\* Record before, so that the callbacks nest and RecordResult callbacks
\* never outnumber Record callbacks.  The code calls RecordResult on every
\* return and Record only after a record fetch without error.
C38_Balanced == AtRecordResult => RecordCalled(Top)

(* ------------------------------------------------------------------ *)
(* macro.go lines 77-103 and 114-241: MacroIsValid against expandMacro  *)
(* ------------------------------------------------------------------ *)
\* c.ExpandMacro(ctx, spec, result, domain, true) has returned
ExpandedInExp == pc = "expanded" /\ args.fn = "ExpandMacro" /\ args.exp

\* C39: MacroIsValid accepts a string exactly when its expansion with
\* exp = true succeeds, and the expansion of an accepted string does not
\* end in the "impossible macro-letter" branch of line 198.  The class of
\* macroRe holds the letter a, for which the switch of lines 147-199 has no
\* case, and lacks the letter s, for which it has one.
C39_ValidatorAgrees ==
    ExpandedInExp =>
        /\ out.valid <=> out.x.err = Nil
        /\ out.valid => out.x.err # "impossible macro-letter"

(* ------------------------------------------------------------------ *)
(* part_001 lines 22-53: DefaultResolver.Resolve, called from two       *)
(* goroutines on the one DefaultResolver that NewChecker (part_003      *)
(* line 50) made.  The fields client and servers are read and written   *)
(* without a lock; each load and each store is a step.                  *)
(*   resolver.client   whether res.client is set                        *)
(*   resolver.servers  res.servers: 0 for the nil slice, g for the      *)
(*                     slice that goroutine g made                      *)
(*   resolver.made[g]  the elements of the slice that goroutine g made  *)
(*   gor[g].at      where goroutine g is in Resolve                     *)
(*   gor[g].i       the index of the loop of lines 38-40                *)
(*   gor[g].list    the slice the loop of line 46 ranges over, seen     *)
(*                  its elements when the loop began, k its index       *)
(*   gor[g].asked   the servers handed to ExchangeContext so far        *)
(*   gor[g].ret     what Resolve returned                               *)
(* ------------------------------------------------------------------ *)
Goroutines == {1, 2}

\* The most nameservers that the resolv.conf of the model lists
MaxServers == 2

\* server:port of the k-th nameserver line
ServerName(k) == "ns" \o ToString(k) \o ":53"

\* What dns.ClientConfigFromFile gives: an error, or the servers listed
ClientConfigs ==
    {[err |-> TRUE, servers |-> <<>>]}
    \cup {[err |-> FALSE, servers |-> [k \in 1..n |-> ServerName(k)]] : n \in 0..MaxServers}

\* The calls of Resolve: the configuration file, and the servers for which
\* ExchangeContext returns no error
ResolveCalls ==
    {[fn |-> "Resolve", conf |-> conf, up |-> up] :
        conf \in ClientConfigs, up \in SUBSET {ServerName(k) : k \in 1..MaxServers}}

\* &DefaultResolver{}
NewResolver == [client |-> FALSE, servers |-> 0, made |-> [g \in Goroutines |-> <<>>]]

Entering == [at |-> "start", i |-> 0, list |-> 0, seen |-> <<>>, k |-> 0,
             asked |-> <<>>, early |-> FALSE, ret |-> Nil]

ResolveInit ==
    /\ args \in ResolveCalls
    /\ pc = "Resolve"
    /\ result = ZeroResult
    /\ stack = <<>>
    /\ zone = [d \in Domains |-> Unasked]
    /\ calls = <<>>
    /\ out = Nil
    /\ peer = Nil
    /\ resolver = NewResolver
    /\ gor = [g \in Goroutines |-> Entering]

\* The elements of the slice s
Elements(s) == IF s = 0 THEN <<>> ELSE resolver.made[s]

\* Line 29: if res.client == nil
LoadClient ==
    \E g \in Goroutines :
        /\ gor[g].at = "start"
        /\ gor' = [gor EXCEPT ![g].at = IF resolver.client THEN "range" ELSE "config"]
        /\ UNCHANGED <<args, pc, result, stack, zone, calls, out, peer, resolver>>

\* Lines 30-36: the configuration is read; Resolve returns an error when
\* the file cannot be read or names no server
ReadConfig ==
    \E g \in Goroutines :
        /\ gor[g].at = "config"
        /\ gor' = IF args.conf.err
                  THEN [gor EXCEPT ![g].at = "done", ![g].ret = "Failed to load"]
                  ELSE IF Len(args.conf.servers) = 0
                  THEN [gor EXCEPT ![g].at = "done", ![g].ret = "No nameservers configured"]
                  ELSE [gor EXCEPT ![g].at = "make"]
        /\ UNCHANGED <<args, pc, result, stack, zone, calls, out, peer, resolver>>

\* Line 37: res.servers = make([]string, len(clientConfig.Servers))
MakeServers ==
    \E g \in Goroutines :
        /\ gor[g].at = "make"
        /\ resolver' = [resolver EXCEPT
                          !.servers = g,
                          !.made[g] = [k \in 1..Len(args.conf.servers) |-> ""]]
        /\ gor' = [gor EXCEPT ![g].at = "fill", ![g].i = 1]
        /\ UNCHANGED <<args, pc, result, stack, zone, calls, out, peer>>

\* Line 39: res.servers is loaded anew for each element that is stored
SliceWritten(g) == resolver.servers

\* Lines 38-40: one element is stored; after the last one the loop ends
FillServer ==
    \E g \in Goroutines :
        /\ gor[g].at = "fill"
        /\ resolver' = [resolver EXCEPT
                          !.made[SliceWritten(g)][gor[g].i] = args.conf.servers[gor[g].i]]
        /\ gor' = [gor EXCEPT ![g].i = @ + 1,
                              ![g].at = IF gor[g].i = Len(args.conf.servers)
                                        THEN "client" ELSE "fill"]
        /\ UNCHANGED <<args, pc, result, stack, zone, calls, out, peer>>

\* Line 41: res.client = new(dns.Client)
StoreClient ==
    \E g \in Goroutines :
        /\ gor[g].at = "client"
        /\ resolver' = [resolver EXCEPT !.client = TRUE]
        /\ gor' = [gor EXCEPT ![g].at = "range"]
        /\ UNCHANGED <<args, pc, result, stack, zone, calls, out, peer>>

\* The store of line 41 reaches the other goroutine before the stores of
\* lines 37-40 do: nothing orders the stores of one goroutine for the
\* loads of another (no lock, channel or atomic in Resolve)
ClientSeenEarly ==
    \E g \in Goroutines :
        /\ gor[g].at \in {"make", "fill"}
        /\ ~gor[g].early
        /\ resolver' = [resolver EXCEPT !.client = TRUE]
        /\ gor' = [gor EXCEPT ![g].early = TRUE]
        /\ UNCHANGED <<args, pc, result, stack, zone, calls, out, peer>>

\* Line 46: the range expression res.servers is evaluated, once
RangeServers ==
    \E g \in Goroutines :
        /\ gor[g].at = "range"
        /\ gor' = [gor EXCEPT ![g].at = "exchange",
                              ![g].list = resolver.servers,
                              ![g].seen = Elements(resolver.servers),
                              ![g].k = 1]
        /\ UNCHANGED <<args, pc, result, stack, zone, calls, out, peer, resolver>>

\* Lines 46-51: the next element is read and queried; Resolve returns the
\* answer of the first server that gives one
Exchange ==
    \E g \in Goroutines :
        /\ gor[g].at = "exchange"
        /\ gor[g].k <= Len(Elements(gor[g].list))
        /\ \E server \in {Elements(gor[g].list)[gor[g].k]} :
               gor' = IF server \in args.up
                      THEN [gor EXCEPT ![g].asked = Append(@, server),
                                       ![g].at = "done", ![g].ret = "answer"]
                      ELSE [gor EXCEPT ![g].asked = Append(@, server), ![g].k = @ + 1]
        /\ UNCHANGED <<args, pc, result, stack, zone, calls, out, peer, resolver>>

\* Line 52: no server answered; m and err are those of the last exchange,
\* both nil when the loop had nothing to range over
Exhausted ==
    \E g \in Goroutines :
        /\ gor[g].at = "exchange"
        /\ gor[g].k > Len(Elements(gor[g].list))
        /\ gor' = [gor EXCEPT ![g].at = "done",
                              ![g].ret = IF gor[g].asked = <<>> THEN "nil, nil"
                                         ELSE "exchange error"]
        /\ UNCHANGED <<args, pc, result, stack, zone, calls, out, peer, resolver>>

ResolveNext ==
    \/ LoadClient
    \/ ReadConfig
    \/ MakeServers
    \/ FillServer
    \/ StoreClient
    \/ ClientSeenEarly
    \/ RangeServers
    \/ Exchange
    \/ Exhausted

ResolveSpec == ResolveInit /\ [][ResolveNext]_vars

\* The servers that a walk of the configured list queries: all of them up
\* to the first that answers
RECURSIVE UntilAnswer(_, _)
UntilAnswer(servers, up) ==
    IF servers = <<>> THEN <<>>
    ELSE IF Head(servers) \in up THEN <<Head(servers)>>
    ELSE <<Head(servers)>> \o UntilAnswer(Tail(servers), up)

\* Goroutine g has begun the loop of line 46
Ranging(g) == gor[g].at = "exchange" \/ (gor[g].at = "done" /\ gor[g].k > 0)

\* C40: of two Resolve calls that both begin before the resolver is
\* initialised, neither ranges over a server list that is empty or partly
\* filled, and each queries the configured servers in order until one
\* answers.  Resolve initialises res.servers and res.client without any
\* synchronisation.
C40_SafeResolve ==
    \A g \in Goroutines :
        /\ Ranging(g) => gor[g].seen = args.conf.servers
        /\ (gor[g].at = "done" /\ gor[g].k > 0) =>
               gor[g].asked = UntilAnswer(args.conf.servers, args.up)

====
